---------------------------- MODULE Spec2Model ----------------------------
(***************************************************************************)
(* A model of the EMI Analyzer finance engine (src/myapp/views.py).        *)
(*                                                                         *)
(* Conventions for values:                                                 *)
(*   - a date is a record [y, m, d];                                       *)
(*   - an integer model field (principal, monthly_emi, amount, salary) is  *)
(*     an integer number of rupees;                                        *)
(*   - a float the code rounds to 2 decimals (round(x, 2)) is an integer   *)
(*     number of hundredths: paise for money, hundredths of a percent for  *)
(*     ratios, thresholds and annual interest rates;                       *)
(*   - a float the code keeps at full precision is an exact rational       *)
(*     <<n, d>> with d > 0, in lowest terms.  Python's binary rounding     *)
(*     noise (1e-16 relative) is not modelled; round() is round-half-even  *)
(*     on the exact value;                                                 *)
(*   - Python's None is <<>>, a present value x is <<x>>.                  *)
(***************************************************************************)
EXTENDS Integers, Sequences, FiniteSets, TLC

None == <<>>

Some(x) == <<x>>

IsNone(o) == o = <<>>

Val(o) == o[1]

Max(a, b) == IF a >= b THEN a ELSE b

Min(a, b) == IF a <= b THEN a ELSE b

Abs(a) == IF a < 0 THEN -a ELSE a

(***************************************************************************)
(* Exact rationals                                                         *)
(***************************************************************************)
RECURSIVE GCD(_, _)
GCD(a, b) == IF b = 0 THEN a ELSE GCD(b, a % b)

Rat(n, d) ==
  LET g == GCD(Abs(n), Abs(d))
      s == IF d < 0 THEN -1 ELSE 1
  IN <<(s * n) \div g, (s * d) \div g>>

RInt(i) == <<i, 1>>

RAdd(a, b) == Rat(a[1] * b[2] + b[1] * a[2], a[2] * b[2])

RSub(a, b) == Rat(a[1] * b[2] - b[1] * a[2], a[2] * b[2])

RMul(a, b) ==
  LET g1 == GCD(Abs(a[1]), b[2])
      g2 == GCD(Abs(b[1]), a[2])
  IN Rat((a[1] \div g1) * (b[1] \div g2), (a[2] \div g2) * (b[2] \div g1))

RDiv(a, b) == RMul(a, IF b[1] < 0 THEN <<-b[2], -b[1]>> ELSE <<b[2], b[1]>>)

RLess(a, b) == a[1] * b[2] < b[1] * a[2]

RLeq(a, b) == a[1] * b[2] <= b[1] * a[2]

RECURSIVE RPow(_, _)
RPow(a, n) == IF n = 0 THEN <<1, 1>> ELSE RMul(a, RPow(a, n - 1))

(* Python round(x) and int(round(x)): to the nearest integer, ties to even *)
RoundHalfEven(n, d) ==
  LET q == n \div d
      r == n % d
  IN IF 2 * r < d THEN q
     ELSE IF 2 * r > d THEN q + 1
     ELSE IF q % 2 = 0 THEN q ELSE q + 1

RRound(a) == RoundHalfEven(a[1], a[2])

(* round(x, 2), as a number of hundredths *)
Round2(a) == RoundHalfEven(100 * a[1], a[2])

(* round(x, 1) of a value in hundredths, again in hundredths *)
Round1H(h) == 10 * RoundHalfEven(h, 10)

(* an integer number of hundredths as a rational *)
FromH(h) == Rat(h, 100)

(* annual percent (in hundredths of a percent) / 1200 *)
MonthlyRate(annual_h) == Rat(annual_h, 120000)

(***************************************************************************)
(* Dates                                                                   *)
(***************************************************************************)
Date(y, m, d) == [y |-> y, m |-> m, d |-> d]

IsLeap(y) == (y % 4 = 0 /\ y % 100 # 0) \/ y % 400 = 0

(* calendar.monthrange(year, month)[1] *)
monthrange(y, m) ==
  IF m = 2 THEN (IF IsLeap(y) THEN 29 ELSE 28)
  ELSE IF m \in {4, 6, 9, 11} THEN 30 ELSE 31

DateOrd(dt) == (dt.y * 12 + (dt.m - 1)) * 32 + dt.d

DateLT(a, b) == DateOrd(a) < DateOrd(b)

DateLE(a, b) == DateOrd(a) <= DateOrd(b)

_month_start_value(value) == [value EXCEPT !.d = 1]

_next_month_start(month_start) ==
  IF month_start.m = 12 THEN Date(month_start.y + 1, 1, 1)
  ELSE Date(month_start.y, month_start.m + 1, 1)

_month_gap(start_month, end_month) ==
  ((end_month.y - start_month.y) * 12) + (end_month.m - start_month.m)

_loan_period_months(start_date, end_date) ==
  LET months == (end_date.y - start_date.y) * 12 + (end_date.m - start_date.m)
  IN Max(1, IF end_date.d >= start_date.d THEN months + 1 ELSE months)

_shift_date_by_months(base_date, months) ==
  LET target_month_index == (base_date.m - 1) + months
      target_year == base_date.y + (target_month_index \div 12)
      target_month == (target_month_index % 12) + 1
      target_day == Min(base_date.d, monthrange(target_year, target_month))
  IN Date(target_year, target_month, target_day)

(* whole calendar months, the day of the month ignored *)
_elapsed_months_ByCalendarMonth(start_date, reference_date) ==
  IF DateLE(reference_date, start_date) THEN 0
  ELSE Max(0, (reference_date.y - start_date.y) * 12 + (reference_date.m - start_date.m))

_elapsed_months(start_date, reference_date) ==
  IF DateLE(reference_date, start_date) THEN 0
  ELSE LET months == (reference_date.y - start_date.y) * 12
                       + (reference_date.m - start_date.m)
       IN Max(0, IF reference_date.d < start_date.d THEN months - 1 ELSE months)

_months_to_date(reference_date, target_date) ==
  IF DateLE(target_date, reference_date) THEN 0
  ELSE LET months == (target_date.y - reference_date.y) * 12
                       + (target_date.m - reference_date.m)
       IN Max(0, IF target_date.d >= reference_date.d THEN months + 1 ELSE months)

_loan_start_window(today_) == <<_shift_date_by_months(today_, -2), today_>>

MonthAbbr == <<"Jan", "Feb", "Mar", "Apr", "May", "Jun",
               "Jul", "Aug", "Sep", "Oct", "Nov", "Dec">>

(* date.strftime('%b %Y'): the month's abbreviation and the year *)
strftime_bY(dt) == <<MonthAbbr[dt.m], dt.y>>

(***************************************************************************)
(* Unbounded naturals for the bisection's comparisons: little-endian       *)
(* sequences of limbs in base BigBase, <<>> for 0, no leading zero limb.   *)
(* A small factor is an integer below 200000, so limb * factor + carry     *)
(* stays below 2^31.                                                       *)
(***************************************************************************)
BigBase == 10000

RECURSIVE BigFromInt(_)
BigFromInt(i) ==
  IF i = 0 THEN <<>> ELSE <<i % BigBase>> \o BigFromInt(i \div BigBase)

RECURSIVE BigMulCarry(_, _, _)
BigMulCarry(x, s, carry) ==
  IF x = <<>> THEN BigFromInt(carry)
  ELSE LET t == x[1] * s + carry
       IN <<t % BigBase>> \o BigMulCarry(Tail(x), s, t \div BigBase)

BigMulSmall(x, s) == IF s = 0 THEN <<>> ELSE BigMulCarry(x, s, 0)

RECURSIVE BigStrip(_)
BigStrip(x) ==
  IF x = <<>> THEN x
  ELSE IF x[Len(x)] = 0 THEN BigStrip(SubSeq(x, 1, Len(x) - 1)) ELSE x

RECURSIVE BigSubBorrow(_, _, _)
BigSubBorrow(x, y, borrow) ==
  IF x = <<>> THEN <<>>
  ELSE LET yi == IF y = <<>> THEN 0 ELSE y[1]
           t == x[1] - yi - borrow
       IN <<IF t < 0 THEN t + BigBase ELSE t>>
            \o BigSubBorrow(Tail(x), IF y = <<>> THEN y ELSE Tail(y),
                            IF t < 0 THEN 1 ELSE 0)

(* x - y for x >= y *)
BigSub(x, y) == BigStrip(BigSubBorrow(x, y, 0))

RECURSIVE BigLessFrom(_, _, _)
BigLessFrom(x, y, i) ==
  IF i = 0 THEN FALSE
  ELSE IF x[i] # y[i] THEN x[i] < y[i] ELSE BigLessFrom(x, y, i - 1)

BigLess(x, y) ==
  IF Len(x) # Len(y) THEN Len(x) < Len(y) ELSE BigLessFrom(x, y, Len(x))

RECURSIVE BigPowSmall(_, _)
BigPowSmall(s, n) ==
  IF n = 0 THEN BigFromInt(1) ELSE BigMulSmall(BigPowSmall(s, n - 1), s)

(***************************************************************************)
(* Amortization math                                                       *)
(***************************************************************************)
(* a raised OverflowError in place of a returned value *)
OverflowError == <<"raise", "OverflowError">>

Raises(outcome) == outcome = OverflowError

(* the largest double is below 2^1024 *)
DoubleMaxExponent == 1024

RECURSIVE Pow2(_)
Pow2(n) == IF n = 0 THEN 1 ELSE 2 * Pow2(n - 1)

(* The doubles of the power: <<mantissa, exponent>> stands for             *)
(* mantissa * 2^(exponent - PowBits), PowOne <= mantissa <= 2 * PowOne.    *)
(* Every product is rounded to PowBits fractional bits, ties to even, so   *)
(* the exponent of base^n is exact for a power of two and otherwise        *)
(* within n / 2^PowBits of the true one.                                   *)
PowBits == 12

PowOne == Pow2(PowBits)

(* the double of a rational of at least 1 *)
FloatOf(base) ==
  LET whole == base[1] \div base[2]
      exponent == CHOOSE e \in 0..16 : Pow2(e) <= whole /\ whole < Pow2(e + 1)
  IN <<RoundHalfEven(base[1] * PowOne, base[2] * Pow2(exponent)), exponent>>

FloatMul(x, y) ==
  IF x[1] * y[1] >= 2 * PowOne * PowOne
    THEN <<RoundHalfEven(x[1] * y[1], 2 * PowOne), x[2] + y[2] + 1>>
    ELSE <<RoundHalfEven(x[1] * y[1], PowOne), x[2] + y[2]>>

(* x ** n by squaring *)
RECURSIVE FloatPow(_, _)
FloatPow(x, n) ==
  IF n = 0 THEN <<PowOne, 0>>
  ELSE LET half == FloatPow(x, n \div 2)
       IN IF n % 2 = 0 THEN FloatMul(half, half) ELSE FloatMul(FloatMul(half, half), x)

(* base ** n raises OverflowError: the result is 2^1024 or more.  A base   *)
(* of at most 2 needs n >= 1024 for that.                                  *)
PowOverflows(base, n) ==
  IF n < DoubleMaxExponent /\ RLeq(base, <<2, 1>>) THEN FALSE
  ELSE LET power == FloatPow(FloatOf(base), n)
       IN power[2] >= DoubleMaxExponent \/ power = <<2 * PowOne, DoubleMaxExponent - 1>>

(* the EMI without the interest: the principal spread over the tenure *)
_emi_from_rate_NoInterest(principal, monthly_rate, tenure_months) ==
  IF tenure_months <= 0 THEN None ELSE Some(Rat(principal, tenure_months))

(* principal: integer; monthly_rate: rational; result: None or a rational *)
_emi_from_rate(principal, monthly_rate, tenure_months) ==
  IF tenure_months <= 0 THEN None
  ELSE IF monthly_rate[1] <= 0 THEN Some(Rat(principal, tenure_months))
  ELSE IF PowOverflows(RAdd(RInt(1), monthly_rate), tenure_months) THEN OverflowError
  ELSE LET factor == RPow(RAdd(RInt(1), monthly_rate), tenure_months)
           denominator == RSub(factor, RInt(1))
       IN IF denominator[1] <= 0 THEN None
          ELSE Some(RDiv(RMul(RMul(RInt(principal), monthly_rate), factor),
                         denominator))

_calculate_monthly_emi(principal, monthly_rate, tenure_months) ==
  LET emi == _emi_from_rate(principal, monthly_rate, tenure_months)
  IN IF IsNone(emi) THEN None
     ELSE IF Raises(emi) THEN emi
     ELSE Some(Max(1, RRound(Val(emi))))

(***************************************************************************)
(* _infer_monthly_rate.  The code bisects on IEEE doubles, whose 53-bit    *)
(* mantissa makes (low + high) / 2 round to a neighbour once low and high  *)
(* are adjacent.  The model keeps low, mid and high on the binary grid of  *)
(* FracBits fractional bits (the integer k stands for k / 2^FracBits) and  *)
(* rounds the midpoint half-to-even, as the double does; _emi_from_rate at *)
(* a grid point is compared exactly.                                       *)
(***************************************************************************)
FracBits == 14

BisectIterations == 120

GridOne == Pow2(FracBits)

(* low + high, not halved *)
GridMid_Sum(low, high) == low + high

(* (low + high) / 2 *)
GridMid(low, high) == RoundHalfEven(low + high, 2)

(* _emi_from_rate(principal, k / GridOne, tenure_months) > monthly_emi,     *)
(* for principal > 0, tenure_months > 0 and monthly_emi = <<a, b>> > 0:     *)
(*   P k (D+k)^n / (D ((D+k)^n - D^n)) > a / b                              *)
CandidateEmiExceeds(principal, k, tenure_months, monthly_emi) ==
  IF k <= 0
    THEN RLess(monthly_emi, Rat(principal, tenure_months))
    ELSE LET factor == BigPowSmall(GridOne + k, tenure_months)
             denominator == BigSub(factor, BigPowSmall(GridOne, tenure_months))
             lhs == BigMulSmall(BigMulSmall(BigMulSmall(factor, k), principal),
                                monthly_emi[2])
             rhs == BigMulSmall(BigMulSmall(denominator, GridOne), monthly_emi[1])
         IN BigLess(rhs, lhs)

(* the loop body with its two branches exchanged *)
BisectStep_Exchanged(principal, monthly_emi, tenure_months, lh) ==
  LET mid == GridMid(lh[1], lh[2])
  IN IF CandidateEmiExceeds(principal, mid, tenure_months, monthly_emi)
       THEN <<mid, lh[2]>>
       ELSE <<lh[1], mid>>

(* one pass of the loop body, on the pair <<low, high>> *)
BisectStep(principal, monthly_emi, tenure_months, lh) ==
  LET mid == GridMid(lh[1], lh[2])
  IN IF CandidateEmiExceeds(principal, mid, tenure_months, monthly_emi)
       THEN <<lh[1], mid>>
       ELSE <<mid, lh[2]>>

(* `iterations` passes of the loop body (split in halves, which keeps the  *)
(* evaluation shallow)                                                     *)
RECURSIVE Bisect(_, _, _, _, _)
Bisect(principal, monthly_emi, tenure_months, lh, iterations) ==
  IF iterations = 0 THEN lh
  ELSE IF iterations = 1
    THEN BisectStep(principal, monthly_emi, tenure_months, lh)
  ELSE LET half == iterations \div 2
           first == Bisect(principal, monthly_emi, tenure_months, lh, half)
       IN IF first[1] <= first[2]  \* always true: it only evaluates `first` here
            THEN Bisect(principal, monthly_emi, tenure_months, first,
                        iterations - half)
            ELSE first

(* abs(x) < 1e-8 for the rational x = <<n, d>> *)
BelowEpsilon(x) ==
  \/ x[1] = 0
  \/ /\ Abs(x[1]) <= x[2] \div 100000000
     /\ Abs(x[1]) * 100000000 < x[2]

(* principal: integer; monthly_emi: rational; result: None or a rational *)
_infer_monthly_rate(principal, monthly_emi, tenure_months) ==
  IF principal <= 0 \/ monthly_emi[1] <= 0 \/ tenure_months <= 0 THEN None
  ELSE LET minimum_emi == Rat(principal, tenure_months)
       IN IF RLess(monthly_emi, minimum_emi) THEN None
          ELSE IF BelowEpsilon(RSub(monthly_emi, minimum_emi)) THEN Some(<<0, 1>>)
          ELSE LET lh == Bisect(principal, monthly_emi, tenure_months,
                                <<0, GridOne>>, BisectIterations)
               IN Some(Rat(GridMid(lh[1], lh[2]), GridOne))

(***************************************************************************)
(* Form fields.  A submitted field is blank, unparseable, or a value: a    *)
(* number (hundredths for a float field), a date, or a text.              *)
(***************************************************************************)
Blank == [kind |-> "blank"]

Bad == [kind |-> "bad"]

Num(v) == [kind |-> "val", v |-> v]

IsVal(f) == f.kind = "val"

(* a text of more than 120 characters *)
LongText == "text-of-121-characters"

TextTooLong(text) == text = LongText

(* _validate_integer_field and _validate_float_field: <<value or None, error>> *)
_validate_integer_field(raw, min_value, max_value) ==
  IF raw.kind = "blank" THEN <<None, "required">>
  ELSE IF raw.kind = "bad" THEN <<None, "invalid">>
  ELSE IF raw.v < min_value THEN <<None, "too small">>
  ELSE IF raw.v > max_value THEN <<None, "too large">>
  ELSE <<Some(raw.v), "">>

_validate_float_field(raw, min_value, max_value) ==
  _validate_integer_field(raw, min_value, max_value)

_validate_optional_integer_field(raw, min_value, max_value) ==
  IF raw.kind = "blank" THEN <<None, "">>
  ELSE _validate_integer_field(raw, min_value, max_value)

(* the default max_value of the integer validators; 10_000_000_000 in the  *)
(* code, beyond every amount of the model                                  *)
MaxIntegerField == 2000000000

(* the branch on loan period, start date and end date:                     *)
(* <<period_months, end date, errors, end_auto_calculated>>                *)
LoanSpan(typed_period, parsed_start_date, typed_end_date) ==
  IF ~IsNone(typed_period) THEN
    IF IsNone(parsed_start_date)
      THEN <<typed_period, typed_end_date, {"Start date is required."}, FALSE>>
      ELSE <<typed_period,
             Some(_shift_date_by_months(Val(parsed_start_date), Val(typed_period) - 1)),
             {},
             typed_end_date
               # Some(_shift_date_by_months(Val(parsed_start_date), Val(typed_period) - 1))>>
  ELSE IF ~IsNone(parsed_start_date) /\ ~IsNone(typed_end_date) THEN
    IF DateLT(Val(typed_end_date), Val(parsed_start_date))
      THEN <<None, typed_end_date, {"End date cannot be before start date."}, FALSE>>
      ELSE <<Some(_loan_period_months(Val(parsed_start_date), Val(typed_end_date))),
             typed_end_date, {}, FALSE>>
  ELSE IF ~IsNone(parsed_start_date) /\ IsNone(typed_end_date) THEN
    <<None, typed_end_date,
      {"Loan period (months) is required to auto-calculate end date."}, FALSE>>
  ELSE IF IsNone(parsed_start_date) /\ ~IsNone(typed_end_date) THEN
    <<None, typed_end_date, {"Start date is required."}, FALSE>>
  ELSE <<None, typed_end_date, {"Provide start date and loan period details."}, FALSE>>

(* the EMIs already paid, typed or counted from the start date, capped at  *)
(* period - 1: <<months_paid, error, months_paid_auto_calculated>>         *)
LoanMonthsPaid(months_paid_field, typed_paid, parsed_start_date, period_months, today_) ==
  LET months_paid_input_empty == months_paid_field.kind = "blank"
      uncapped ==
        IF IsNone(typed_paid[1]) /\ months_paid_input_empty
          THEN (IF ~IsNone(parsed_start_date)
                  THEN _elapsed_months(Val(parsed_start_date), today_) ELSE 0)
        ELSE IF IsNone(typed_paid[1]) THEN 0
        ELSE Val(typed_paid[1])
  IN <<IF ~IsNone(period_months)
         THEN Min(uncapped, Max(0, Val(period_months) - 1)) ELSE uncapped,
       typed_paid[2],
       IsNone(typed_paid[1]) /\ months_paid_input_empty /\ ~IsNone(parsed_start_date)>>

(* the typed rate: <<Some(<<annual percent, monthly rate>>) or None, error>> *)
LoanTypedRate(interest_rate_field, mode, as_float) ==
  IF interest_rate_field.kind = "blank" THEN <<None, "">>
  ELSE IF as_float[2] # ""
    THEN <<None, (IF mode = "monthly" THEN "Monthly interest rate "
                  ELSE "Interest rate ") \o as_float[2]>>
  ELSE IF mode = "monthly"
    THEN <<Some(<<Rat(Val(as_float[1]) * 12, 100), Rat(Val(as_float[1]), 10000)>>), "">>
  ELSE <<Some(<<Rat(Val(as_float[1]), 100), MonthlyRate(Val(as_float[1]))>>), "">>

(* the inferred rate as <<annual percent, monthly rate>> *)
InferredRatePair(inferred_rate) ==
  IF IsNone(inferred_rate) THEN None
  ELSE Some(<<RMul(Val(inferred_rate), RInt(1200)), Val(inferred_rate)>>)

(* the auto-calculation of the EMI or of the rate:                         *)
(* <<monthly_emi, rate pair, errors, emi_auto_calculated, rate_auto_calculated>> *)
LoanAutoCalculation(typed_emi, typed_rate, remaining_months, calculated_emi, inferred_rate) ==
  IF IsNone(typed_emi) /\ IsNone(typed_rate) THEN
    <<typed_emi, typed_rate,
      {"Enter either Monthly EMI or Interest rate to auto-calculate the other."},
      FALSE, FALSE>>
  ELSE IF IsNone(typed_emi) THEN
    IF IsNone(remaining_months)
      THEN <<typed_emi, typed_rate,
             {"Loan period is required to auto-calculate EMI."}, FALSE, FALSE>>
    ELSE IF IsNone(calculated_emi)
      THEN <<None, typed_rate,
             {"Unable to auto-calculate EMI from the provided values."}, FALSE, FALSE>>
    ELSE <<calculated_emi, typed_rate, {}, TRUE, FALSE>>
  ELSE IF IsNone(typed_rate) THEN
    IF IsNone(remaining_months)
      THEN <<typed_emi, typed_rate,
             {"Loan period is required to auto-calculate interest rate."}, FALSE, FALSE>>
    ELSE IF IsNone(inferred_rate)
      THEN <<typed_emi, typed_rate,
             {"Monthly EMI is too low for the selected principal and period."},
             FALSE, FALSE>>
    ELSE <<typed_emi, inferred_rate, {}, FALSE, TRUE>>
  ELSE <<typed_emi, typed_rate, {}, FALSE, FALSE>>

(* the errors of the text, amount and date fields *)
LoanFieldErrors(form, today_, is_edit_flow, principal, typed_period, typed_emi) ==
  (IF form.loan_type = "" THEN {"Loan type is required."}
   ELSE IF TextTooLong(form.loan_type) THEN {"Loan type is too long."} ELSE {})
  \cup (IF TextTooLong(form.lender)
          THEN {"Lender name must be 120 characters or less."} ELSE {})
  \cup (IF principal[2] # "" THEN {"Principal " \o principal[2]} ELSE {})
  \cup (IF form.start_date.kind = "bad" THEN {"Start date is invalid."} ELSE {})
  \cup (IF form.end_date.kind = "bad" THEN {"End date is invalid."} ELSE {})
  \cup (IF /\ IsVal(form.start_date)
           /\ ~is_edit_flow
           /\ \/ DateLT(form.start_date.v, _loan_start_window(today_)[1])
              \/ DateLT(_loan_start_window(today_)[2], form.start_date.v)
          THEN {"Start date must be inside the start window."} ELSE {})
  \cup (IF typed_period[2] # "" THEN {"Loan period (months) " \o typed_period[2]} ELSE {})
  \cup (IF typed_emi[2] # "" THEN {"Monthly EMI " \o typed_emi[2]} ELSE {})

(* the errors of the period arithmetic and of the rate, and the result *)
LoanSubmission(form, field_errors, principal, span, paid, rate, auto) ==
  LET period_months == span[1]
      months_paid == paid[1]
      errors ==
        field_errors \cup span[3]
        \cup (IF paid[2] # "" THEN {"EMIs already paid " \o paid[2]} ELSE {})
        \cup (IF ~IsNone(period_months) /\ months_paid >= Val(period_months)
                THEN {"EMIs already paid must be less than total loan period."} ELSE {})
        \cup (IF ~IsNone(period_months) /\ Val(period_months) - months_paid <= 0
                THEN {"Remaining loan period must be at least 1 month."} ELSE {})
        \cup (IF rate[2] # "" THEN {rate[2]} ELSE {})
        \cup auto[3]
        \cup (IF ~IsNone(auto[2]) /\ RLess(RInt(100), Val(auto[2])[1])
                THEN {"Calculated annual interest rate is above 100%. Please verify inputs."}
                ELSE {})
  IN IF errors # {} THEN <<None, errors>>
     ELSE <<Some([loan_type |-> form.loan_type,
                  lender |-> form.lender,
                  principal |-> Val(principal[1]),
                  monthly_emi |-> Val(auto[1]),
                  interest_rate |-> Round2(Val(auto[2])[1]),
                  start_date |-> form.start_date.v,
                  end_date |-> Val(span[2]),
                  loan_period_months |-> Val(period_months),
                  months_paid |-> months_paid,
                  remaining_months |-> Val(period_months) - months_paid,
                  emi_auto_calculated |-> auto[4],
                  rate_auto_calculated |-> auto[5],
                  end_auto_calculated |-> span[4],
                  months_paid_auto_calculated |-> paid[3]]),
            errors>>

(* the auto-calculation, once period and months paid are known *)
LoanSubmissionFromPeriod(form, field_errors, principal, span, paid, rate, typed_emi) ==
  LET remaining_months == IF IsNone(span[1]) THEN None ELSE Some(Val(span[1]) - paid[1])
      principal_or_0 == IF IsNone(principal[1]) THEN 0 ELSE Val(principal[1])
      wants_emi == IsNone(typed_emi) /\ ~IsNone(rate[1]) /\ ~IsNone(remaining_months)
      wants_rate == ~IsNone(typed_emi) /\ IsNone(rate[1]) /\ ~IsNone(remaining_months)
  IN LoanSubmission(form, field_errors, principal, span, paid, rate,
       LoanAutoCalculation(typed_emi, rate[1], remaining_months,
         IF wants_emi
           THEN _calculate_monthly_emi(principal_or_0, Val(rate[1])[2],
                                       Val(remaining_months))
           ELSE None,
         IF wants_rate
           THEN InferredRatePair(_infer_monthly_rate(principal_or_0, RInt(Val(typed_emi)),
                                                     Val(remaining_months)))
           ELSE None))

(* the months paid, once the period is known *)
LoanSubmissionFromSpan(form, today_, field_errors, principal, span, rate, typed_emi) ==
  LoanSubmissionFromPeriod(form, field_errors, principal, span,
    LoanMonthsPaid(form.months_paid,
                   IF form.months_paid.kind = "blank" THEN <<None, "">>
                   ELSE _validate_optional_integer_field(form.months_paid, 0, 600),
                   IF IsVal(form.start_date) THEN Some(form.start_date.v) ELSE None,
                   span[1], today_),
    rate, typed_emi)

(***************************************************************************)
(* _validate_loan_form_submission: <<cleaned or None, errors>>             *)
(***************************************************************************)
LoanSubmissionFromFields(form, today_, is_edit_flow, mode, principal, typed_period, typed_emi) ==
  LoanSubmissionFromSpan(form, today_,
    LoanFieldErrors(form, today_, is_edit_flow, principal, typed_period, typed_emi),
    principal,
    LoanSpan(typed_period[1],
             IF IsVal(form.start_date) THEN Some(form.start_date.v) ELSE None,
             IF IsVal(form.end_date) THEN Some(form.end_date.v) ELSE None),
    LoanTypedRate(form.interest_rate, mode,
                  IF mode = "monthly" THEN _validate_float_field(form.interest_rate, 0, 833)
                  ELSE _validate_float_field(form.interest_rate, 0, 10000)),
    typed_emi[1])

_validate_loan_form_submission(form, today_, is_edit_flow) ==
  LoanSubmissionFromFields(form, today_, is_edit_flow,
    IF form.interest_rate_mode \in {"annual", "monthly"}
      THEN form.interest_rate_mode ELSE "annual",
    _validate_integer_field(form.principal, 1, MaxIntegerField),
    _validate_optional_integer_field(form.loan_period_months, 1, 600),
    _validate_optional_integer_field(form.monthly_emi, 1, MaxIntegerField))

(***************************************************************************)
(* Sequences                                                               *)
(***************************************************************************)
RECURSIVE SeqSum(_)
SeqSum(q) == IF q = <<>> THEN 0 ELSE q[1] + SeqSum(Tail(q))

RECURSIVE SelectIdx(_, _)
(* the indices i of 1..n, ascending, with keep[i] *)
SelectIdx(keep, n) ==
  IF n = 0 THEN <<>>
  ELSE IF keep[n] THEN Append(SelectIdx(keep, n - 1), n) ELSE SelectIdx(keep, n - 1)

RemoveAt(q, i) == SubSeq(q, 1, i - 1) \o SubSeq(q, i + 1, Len(q))

Pick(q, idx) == [j \in 1..Len(idx) |-> q[idx[j]]]

RECURSIVE LexLess(_, _)
(* tuples of integers of equal length, compared as Python compares tuples *)
LexLess(a, b) ==
  IF a = <<>> THEN FALSE
  ELSE IF a[1] # b[1] THEN a[1] < b[1]
  ELSE LexLess(Tail(a), Tail(b))

RECURSIVE InsertIdx(_, _, _)
(* i goes after every index whose key is not greater: the sort is stable *)
InsertIdx(keys, sorted, i) ==
  IF sorted = <<>> THEN <<i>>
  ELSE IF LexLess(keys[i], keys[sorted[1]]) THEN <<i>> \o sorted
  ELSE <<sorted[1]>> \o InsertIdx(keys, Tail(sorted), i)

RECURSIVE SortIdxUpTo(_, _)
SortIdxUpTo(keys, n) ==
  IF n = 0 THEN <<>> ELSE InsertIdx(keys, SortIdxUpTo(keys, n - 1), n)

(* ORDER BY / list.sort(key=...): the indices of keys, sorted by key, ties *)
(* in index (id) order                                                     *)
SortIdx(keys) == SortIdxUpTo(keys, Len(keys))

(***************************************************************************)
(* Texts that are compared or lower-cased: card names.  TextRank is the    *)
(* position in Python's string order ('Gold' < 'Visa' < 'gold').          *)
(***************************************************************************)
CardNameOrder == <<"Gold", "Visa", "gold">>

TextRank(text) == CHOOSE i \in 1..Len(CardNameOrder) : CardNameOrder[i] = text

(* str.lower() *)
Lower(text) == IF text = "Gold" THEN "gold" ELSE IF text = "Visa" THEN "visa" ELSE text

LowerOrder == <<"gold", "visa">>

LowerRank(text) == CHOOSE i \in 1..Len(LowerOrder) : LowerOrder[i] = Lower(text)

(***************************************************************************)
(* The record store and the clock                                          *)
(***************************************************************************)
VARIABLES
  today,     \* timezone.localdate()
  incomes,   \* user -> None or the user's Income
  loans,     \* the Loan rows, in id order
  budgets,   \* user -> None or the user's Budget
  cards,     \* the CreditCardAccount rows, in id order
  entries,   \* the CreditCardEntry rows, in id order; .card is an index of cards
  settings,  \* the SystemSetting singleton
  audit,     \* the number of AuditLog rows
  probe      \* the arguments and result of a function under test

vars == <<today, incomes, loans, budgets, cards, entries, settings, audit, probe>>

Users == {"u1", "u2"}

TYPE_EMI == "emi"

TYPE_MONTHLY_SPEND == "monthly"

(* SystemSetting.get_solo's defaults, in hundredths of a percent *)
DefaultSettings ==
  [emi_green_limit |-> 3000,
   emi_yellow_limit |-> 5000,
   high_interest_rate_limit |-> 1200,
   savings_target_percent |-> 2000,
   advisory_message |-> ""]

total_income(income) == income.monthly_salary + income.other_income

total_expense(budget) ==
  budget.grocery + budget.rent + budget.transport + budget.entertainment

(***************************************************************************)
(* Credit-card ledger                                                      *)
(***************************************************************************)
(* the OverflowError of _calculate_monthly_emi leaves _card_emi_monthly_due *)
_card_emi_monthly_due_raises(principal, annual_rate_percent, tenure_months) ==
  Raises(_calculate_monthly_emi(principal, MonthlyRate(Max(0, annual_rate_percent)),
                                Max(1, tenure_months)))

(* an integer number of rupees *)
_card_emi_monthly_due(principal, annual_rate_percent, tenure_months) ==
  LET tenure == Max(1, tenure_months)
      monthly_rate == MonthlyRate(Max(0, annual_rate_percent))
      calculated == _calculate_monthly_emi(principal, monthly_rate, tenure)
  IN IF IsNone(calculated)
       THEN Max(1, RRound(Rat(principal, tenure)))
       ELSE Val(calculated)

(* the month of the purchase counted as a paid instalment *)
_card_emi_remaining_balance_CountsFirstMonth(principal, annual_rate_percent, tenure_months, months_paid) ==
  IF Max(0, months_paid) + 1 >= Max(1, tenure_months) THEN 0
  ELSE IF annual_rate_percent <= 0
    THEN Max(0, Round2(RMul(RInt(Max(0, principal)),
                            Rat(Max(1, tenure_months) - Max(0, months_paid) - 1,
                                Max(1, tenure_months)))))
  ELSE Round2(RInt(Max(0, principal)))

(* paise *)
_card_emi_remaining_balance(principal, annual_rate_percent, tenure_months, months_paid) ==
  LET amount == Max(0, principal)
      tenure == Max(1, tenure_months)
      paid == Max(0, months_paid)
      monthly_rate == MonthlyRate(Max(0, annual_rate_percent))
  IN IF paid >= tenure THEN 0
     ELSE IF monthly_rate[1] <= 0
       THEN Max(0, Round2(RMul(RInt(amount), Rat(tenure - paid, tenure))))
     ELSE LET growth_total == RPow(RAdd(RInt(1), monthly_rate), tenure)
              growth_paid == RPow(RAdd(RInt(1), monthly_rate), paid)
              denominator == RSub(growth_total, RInt(1))
          IN IF denominator[1] <= 0 THEN Round2(RInt(amount))
             ELSE Max(0, Round2(RMul(RInt(amount),
                                     RDiv(RSub(growth_total, growth_paid),
                                          denominator))))

(* the defaultdict's fresh row; money in paise *)
NewCardRow(card_id) ==
  [card_id |-> card_id,
   emi_monthly_due |-> 0,
   emi_remaining_balance |-> 0,
   monthly_spend_amount |-> 0,
   total_amount |-> 0,
   interest_estimate |-> 0,
   reward_estimate |-> 0,
   entry_count |-> 0,
   spend_entry_count |-> 0,
   emi_entry_count |-> 0,
   closed_emi_entry_count |-> 0,
   upcoming_emi_entry_count |-> 0]

NewLedger ==
  [total_emi_monthly_due |-> 0,
   total_monthly_spend_amount |-> 0,
   total_emi_remaining_balance |-> 0,
   total_amount |-> 0,
   total_interest_estimate |-> 0,
   total_reward_estimate |-> 0,
   weighted_rate_numerator |-> <<0, 1>>,
   per_card_data |-> <<>>]

RowIndex(rows, card_id) ==
  IF \E j \in 1..Len(rows) : rows[j].card_id = card_id
    THEN CHOOSE j \in 1..Len(rows) : rows[j].card_id = card_id
    ELSE Len(rows) + 1

(* only months before the reference month are skipped *)
SpendIsSettled_OnlyPast(entry_month, reference_month) ==
  DateLT(entry_month, reference_month)

(* the `entry_month != reference_month` test of the monthly-spend branch *)
SpendIsSettled(entry_month, reference_month) == entry_month # reference_month

(* an entry stays active one month past its tenure *)
EmiEntryStatus_LateClose(elapsed_months, tenure_months) ==
  IF elapsed_months < 0 THEN "upcoming"
  ELSE IF elapsed_months > tenure_months THEN "closed"
  ELSE "active"

(* the two tests of the EMI branch: "upcoming", "closed" or "active" *)
EmiEntryStatus(elapsed_months, tenure_months) ==
  IF elapsed_months < 0 THEN "upcoming"
  ELSE IF elapsed_months >= tenure_months THEN "closed"
  ELSE "active"

(* one pass of the loop over the entries *)
LedgerStep(acc, entry, reference_month) ==
  LET card == cards[entry.card]
      j == RowIndex(acc.per_card_data, entry.card)
      rows0 == IF j > Len(acc.per_card_data)
                 THEN Append(acc.per_card_data, NewCardRow(entry.card))
                 ELSE acc.per_card_data
      row0 == [rows0[j] EXCEPT !.entry_count = @ + 1]
      entry_month == _month_start_value(entry.entry_month)
  IN IF entry.entry_type = TYPE_EMI THEN
       LET tenure_months == Max(1, entry.tenure_months)
           elapsed_months == _month_gap(entry_month, reference_month)
           status == EmiEntryStatus(elapsed_months, tenure_months)
       IN IF status = "upcoming" THEN
            [acc EXCEPT !.per_card_data =
               [rows0 EXCEPT ![j] = [row0 EXCEPT !.upcoming_emi_entry_count = @ + 1]]]
          ELSE IF status = "closed" THEN
            [acc EXCEPT !.per_card_data =
               [rows0 EXCEPT ![j] = [row0 EXCEPT !.closed_emi_entry_count = @ + 1]]]
          ELSE
            LET monthly_due == 100 * _card_emi_monthly_due(entry.amount,
                                       card.emi_interest_rate, tenure_months)
                remaining_balance == _card_emi_remaining_balance(entry.amount,
                                       card.emi_interest_rate, tenure_months,
                                       elapsed_months)
                monthly_interest == Round2(RMul(FromH(remaining_balance),
                                                MonthlyRate(card.emi_interest_rate)))
            IN [acc EXCEPT
                  !.per_card_data = [rows0 EXCEPT ![j] =
                     [row0 EXCEPT !.emi_entry_count = @ + 1,
                                  !.emi_monthly_due = @ + monthly_due,
                                  !.emi_remaining_balance = @ + remaining_balance,
                                  !.total_amount = @ + remaining_balance,
                                  !.interest_estimate = @ + monthly_interest]],
                  !.total_emi_monthly_due = @ + monthly_due,
                  !.total_emi_remaining_balance = @ + remaining_balance,
                  !.total_amount = @ + remaining_balance,
                  !.total_interest_estimate = @ + monthly_interest,
                  !.weighted_rate_numerator =
                     RAdd(@, RMul(FromH(remaining_balance),
                                  FromH(card.emi_interest_rate)))]
     ELSE IF SpendIsSettled(entry_month, reference_month) THEN
       [acc EXCEPT !.per_card_data = [rows0 EXCEPT ![j] = row0]]
     ELSE
       LET spend_amount == 100 * Max(0, entry.amount)
           reward_estimate == Round2(RMul(FromH(spend_amount),
                                          Rat(card.reward_percent, 10000)))
       IN [acc EXCEPT
             !.per_card_data = [rows0 EXCEPT ![j] =
                [row0 EXCEPT !.spend_entry_count = @ + 1,
                             !.monthly_spend_amount = @ + spend_amount,
                             !.total_amount = @ + spend_amount,
                             !.reward_estimate = @ + reward_estimate]],
             !.total_monthly_spend_amount = @ + spend_amount,
             !.total_amount = @ + spend_amount,
             !.total_reward_estimate = @ + reward_estimate]

RECURSIVE LedgerLoop(_, _, _)
LedgerLoop(acc, entry_list, reference_month) ==
  IF entry_list = <<>> THEN acc
  ELSE LedgerLoop(LedgerStep(acc, entry_list[1], reference_month),
                  Tail(entry_list), reference_month)

(* round((part / total) * 100, 1), in hundredths of a percent *)
SharePercent(part, total) == 10 * RRound(RMul(Rat(part, total), RInt(1000)))

(* a row of per_card_rows built from a row of per_card_data *)
FinishCardRow(item) ==
  LET card == cards[item.card_id]
      total_for_card == item.total_amount
      credit_limit == Max(0, card.credit_limit)
  IN [card_id |-> item.card_id,
      card_name |-> card.card_name,
      emi_monthly_due |-> item.emi_monthly_due,
      emi_remaining_balance |-> item.emi_remaining_balance,
      monthly_spend_amount |-> item.monthly_spend_amount,
      total_amount |-> total_for_card,
      interest_estimate |-> item.interest_estimate,
      reward_estimate |-> item.reward_estimate,
      entry_count |-> item.entry_count,
      spend_entry_count |-> item.spend_entry_count,
      emi_entry_count |-> item.emi_entry_count,
      closed_emi_entry_count |-> item.closed_emi_entry_count,
      upcoming_emi_entry_count |-> item.upcoming_emi_entry_count,
      emi_share_percent |-> IF total_for_card > 0
                              THEN SharePercent(item.emi_remaining_balance, total_for_card)
                              ELSE 0,
      spend_share_percent |-> IF total_for_card > 0
                                THEN SharePercent(item.monthly_spend_amount, total_for_card)
                                ELSE 0,
      net_cost |-> item.interest_estimate - item.reward_estimate,
      credit_limit |-> credit_limit,
      available_limit |-> Max(0, 100 * credit_limit - total_for_card),
      utilization_percent |-> IF credit_limit > 0
                                THEN 10 * RoundHalfEven(total_for_card * 10, credit_limit)
                                ELSE 0]

(* the all-zero row of a card without entries *)
EmptyCardRow(card_id) ==
  LET card == cards[card_id]
  IN [card_id |-> card_id,
      card_name |-> card.card_name,
      emi_monthly_due |-> 0,
      emi_remaining_balance |-> 0,
      monthly_spend_amount |-> 0,
      total_amount |-> 0,
      interest_estimate |-> 0,
      reward_estimate |-> 0,
      entry_count |-> 0,
      spend_entry_count |-> 0,
      emi_entry_count |-> 0,
      closed_emi_entry_count |-> 0,
      upcoming_emi_entry_count |-> 0,
      emi_share_percent |-> 0,
      spend_share_percent |-> 0,
      net_cost |-> 0,
      credit_limit |-> Max(0, card.credit_limit),
      available_limit |-> 100 * Max(0, card.credit_limit),
      utilization_percent |-> 0]

(* CreditCardAccount.objects.filter(user=user).order_by('card_name', 'id'): *)
(* indices of cards                                                         *)
UserCardIds(user) ==
  LET own == SelectIdx([i \in 1..Len(cards) |-> cards[i].user = user], Len(cards))
  IN Pick(own, SortIdx([j \in 1..Len(own) |-> <<TextRank(cards[own[j]].card_name)>>]))

(* CreditCardEntry.objects.filter(card__user=user).order_by('-entry_month', '-id') *)
UserEntries(user) ==
  LET own == SelectIdx([i \in 1..Len(entries) |-> cards[entries[i].card].user = user],
                       Len(entries))
      ordered == Pick(own, SortIdx([j \in 1..Len(own) |->
                         <<-DateOrd(entries[own[j]].entry_month), -own[j]>>]))
  IN Pick(entries, ordered)

(* the rows of the cards with entries alone *)
CardRows_OnlyWithEntries(card_ids, acc) ==
  [j \in 1..Len(acc.per_card_data) |-> FinishCardRow(acc.per_card_data[j])]

(* the rows of the cards with entries, then the all-zero rows of the rest *)
CardRows(card_ids, acc) ==
  LET with_entries == [j \in 1..Len(acc.per_card_data) |->
                         FinishCardRow(acc.per_card_data[j])]
      bare == SelectIdx([j \in 1..Len(card_ids) |->
                           \A k \in 1..Len(acc.per_card_data) :
                              acc.per_card_data[k].card_id # card_ids[j]],
                        Len(card_ids))
      without_entries == [j \in 1..Len(bare) |-> EmptyCardRow(card_ids[bare[j]])]
  IN with_entries \o without_entries

(* per_card_rows.sort(key=lambda row: (-row['total_amount'], row['card_name'].lower())) *)
SortCardRows(unsorted) ==
  Pick(unsorted, SortIdx([j \in 1..Len(unsorted) |->
                            <<-unsorted[j].total_amount, LowerRank(unsorted[j].card_name)>>]))

(* the quotient cut to 2 decimals instead of rounded *)
WeightedApr_Truncated(weighted_rate_numerator, total_amount) ==
  IF total_amount > 0
    THEN LET q == RDiv(weighted_rate_numerator, FromH(total_amount))
         IN (100 * q[1]) \div q[2]
    ELSE 0

(* round(weighted_rate_numerator / total_amount, 2) if total_amount > 0    *)
(* else 0.0: rupees times percent over paise, in hundredths of a percent   *)
WeightedApr(weighted_rate_numerator, total_amount) ==
  IF total_amount > 0
    THEN Round2(RDiv(weighted_rate_numerator, FromH(total_amount)))
    ELSE 0

(* the returned dict, from the loop's totals and the sorted rows *)
CardSnapshotDict(card_ids, entry_list, acc, per_card_rows, reference_month) ==
  [cards |-> card_ids,
   entries |-> entry_list,
   per_card_rows |-> per_card_rows,
   total_emi_amount |-> acc.total_emi_monthly_due,
   total_monthly_spend_amount |-> acc.total_monthly_spend_amount,
   total_emi_remaining_balance |-> acc.total_emi_remaining_balance,
   total_amount |-> acc.total_amount,
   weighted_apr |-> WeightedApr(acc.weighted_rate_numerator, acc.total_amount),
   monthly_interest_estimate |-> acc.total_interest_estimate,
   monthly_reward_estimate |-> acc.total_reward_estimate,
   monthly_net_cost |-> acc.total_interest_estimate - acc.total_reward_estimate,
   legacy_entry_count |-> 0,
   legacy_current_entry_count |-> 0,
   legacy_current_outstanding |-> 0,
   legacy_min_due |-> 0,
   active_emi_entry_count |->
      SeqSum([j \in 1..Len(per_card_rows) |-> per_card_rows[j].emi_entry_count]),
   current_statement_month |-> reference_month]

(* the part of the function after the loop over the entries *)
CardSnapshotAfterLoop(card_ids, entry_list, acc, reference_month) ==
  CardSnapshotDict(card_ids, entry_list, acc, SortCardRows(CardRows(card_ids, acc)),
                   reference_month)

(* the function once the cards and the entries are fetched *)
CardSnapshotOf(card_ids, entry_list, reference_month) ==
  CardSnapshotAfterLoop(card_ids, entry_list,
                        LedgerLoop(NewLedger, entry_list, reference_month),
                        reference_month)

_credit_card_snapshot(user, reference_date) ==
  CardSnapshotOf(UserCardIds(user), UserEntries(user), _month_start_value(reference_date))

(***************************************************************************)
(* Loan ledger                                                             *)
(***************************************************************************)
(* a loan that has not started counts as active *)
LoanStatus_NoUpcoming(loan, reference_date) ==
  IF DateLT(loan.end_date, reference_date) THEN "closed" ELSE "active"

LoanStatus(loan, reference_date) ==
  IF DateLT(reference_date, loan.start_date) THEN "upcoming"
  ELSE IF DateLT(loan.end_date, reference_date) THEN "closed"
  ELSE "active"

(* a closed loan counted on as if it were active *)
RuntimeRow_ClosedCountsOn(loan, reference_date) ==
  LET total_months == _loan_period_months(loan.start_date, loan.end_date)
      status == LoanStatus(loan, reference_date)
      elapsed_months ==
        IF status = "upcoming" THEN 0
        ELSE Min(total_months, _elapsed_months(loan.start_date, reference_date))
  IN [loan |-> loan,
      status |-> status,
      total_months |-> total_months,
      elapsed_months |-> elapsed_months,
      remaining_months |-> IF status = "upcoming" THEN total_months
                           ELSE Max(1, total_months - elapsed_months)]

RuntimeRow(loan, reference_date) ==
  LET total_months == _loan_period_months(loan.start_date, loan.end_date)
      status == LoanStatus(loan, reference_date)
      elapsed_months ==
        IF status = "upcoming" THEN 0
        ELSE IF status = "closed" THEN total_months
        ELSE Min(total_months, _elapsed_months(loan.start_date, reference_date))
  IN [loan |-> loan,
      status |-> status,
      total_months |-> total_months,
      elapsed_months |-> elapsed_months,
      remaining_months |-> IF status = "upcoming" THEN total_months
                           ELSE IF status = "closed" THEN 0
                           ELSE Max(1, total_months - elapsed_months)]

LoansWithStatus(loan_list, reference_date, status) ==
  Pick(loan_list,
       SelectIdx([i \in 1..Len(loan_list) |->
                    LoanStatus(loan_list[i], reference_date) = status],
                 Len(loan_list)))

_loan_runtime_breakdown(loan_list, reference_date) ==
  [active_loans |-> LoansWithStatus(loan_list, reference_date, "active"),
   upcoming_loans |-> LoansWithStatus(loan_list, reference_date, "upcoming"),
   closed_loans |-> LoansWithStatus(loan_list, reference_date, "closed"),
   runtime_rows |-> [i \in 1..Len(loan_list) |-> RuntimeRow(loan_list[i], reference_date)]]

RECURSIVE AmortizeLoop(_, _, _, _)
(* the for loop over range(months_elapsed); None stands for the early      *)
(* `return 0.0`                                                            *)
AmortizeLoop(balance, monthly_rate, monthly_emi, months) ==
  IF months = 0 THEN Some(balance)
  ELSE LET grown == IF monthly_rate[1] > 0
                      THEN RAdd(balance, RMul(balance, monthly_rate))
                      ELSE balance
           paid == RSub(grown, RInt(monthly_emi))
       IN IF paid[1] <= 0 THEN None
          ELSE AmortizeLoop(paid, monthly_rate, monthly_emi, months - 1)

(* the two window tests: is month_start outside [start_month, end_month]?  *)
OutsideLoanWindow(month_start, start_month, end_month) ==
  DateLT(month_start, start_month) \/ DateLT(end_month, month_start)

(* the annual rate used as the rate of one month *)
LoanMonthlyRate_Annual(loan) == Rat(Max(0, loan.interest_rate), 10000)

(* max(0.0, float(loan.interest_rate or 0.0)) / 1200.0 *)
LoanMonthlyRate(loan) == MonthlyRate(Max(0, loan.interest_rate))

(* the amortization runs on past the end of the loan *)
_loan_remaining_balance_at_month_NoEnd(loan, month_start) ==
  IF Max(0, loan.principal) <= 0 \/ DateLT(month_start, _month_start_value(loan.start_date))
    THEN 0
    ELSE LET balance ==
               AmortizeLoop(RInt(Max(0, loan.principal)), LoanMonthlyRate(loan),
                            Max(0, loan.monthly_emi),
                            Max(0, _month_gap(_month_start_value(loan.start_date),
                                              month_start)))
         IN IF IsNone(balance) THEN 0 ELSE Round2(Val(balance))

(* paise *)
_loan_remaining_balance_at_month(loan, month_start) ==
  LET principal == Max(0, loan.principal)
      start_month == _month_start_value(loan.start_date)
      end_month == _month_start_value(loan.end_date)
      months_elapsed == Max(0, _month_gap(start_month, month_start))
      tenure_months == _loan_period_months(loan.start_date, loan.end_date)
      monthly_rate == LoanMonthlyRate(loan)
      monthly_emi == Max(0, loan.monthly_emi)
  IN IF principal <= 0 THEN 0
     ELSE IF OutsideLoanWindow(month_start, start_month, end_month) THEN 0
     ELSE IF months_elapsed >= tenure_months THEN 0
     ELSE LET balance == AmortizeLoop(RInt(principal), monthly_rate, monthly_emi,
                                      months_elapsed)
          IN IF IsNone(balance) THEN 0
             ELSE Round2(IF Val(balance)[1] > 0 THEN Val(balance) ELSE RInt(0))

(* strftime('%d %b %Y') *)
strftime_dbY(dt) == <<dt.d, MonthAbbr[dt.m], dt.y>>

RECURSIVE MinDate(_)
MinDate(dates) ==
  IF Len(dates) = 1 THEN dates[1]
  ELSE LET rest == MinDate(Tail(dates))
       IN IF DateLT(rest, dates[1]) THEN rest ELSE dates[1]

RECURSIVE MaxDate(_)
MaxDate(dates) ==
  IF Len(dates) = 1 THEN dates[1]
  ELSE LET rest == MaxDate(Tail(dates))
       IN IF DateLT(dates[1], rest) THEN rest ELSE dates[1]

(* a ratio equal to the yellow limit is already red *)
ZoneClass_StrictYellow(ratio, green_limit, yellow_limit) ==
  IF ratio < green_limit THEN "green"
  ELSE IF ratio < yellow_limit THEN "yellow"
  ELSE "red"

(* the 'green' / 'yellow' / 'red' ladder, on hundredths of a percent *)
ZoneClass(ratio, green_limit, yellow_limit) ==
  IF ratio < green_limit THEN "green"
  ELSE IF ratio <= yellow_limit THEN "yellow"
  ELSE "red"

(* round(percent, 1) without the clamp to 0..100 *)
Progress_Unclamped(percent) == 10 * RRound(RMul(percent, RInt(10)))

(* max(0, min(100, round(x, 1))) of a percentage given as a rational *)
Progress(percent) == Max(0, Min(10000, 10 * RRound(RMul(percent, RInt(10)))))

(* the loans of every user *)
UserLoans_Everyone(user) ==
  Pick(loans, SortIdx([j \in 1..Len(loans) |-> <<DateOrd(loans[j].end_date)>>]))

(* Loan.objects.filter(user=user).order_by('end_date', 'id') *)
UserLoans(user) ==
  LET own == SelectIdx([i \in 1..Len(loans) |-> loans[i].user = user], Len(loans))
  IN Pick(loans, Pick(own, SortIdx([j \in 1..Len(own) |->
                                      <<DateOrd(loans[own[j]].end_date)>>])))

(* the first high-interest loan, whatever its rate *)
TopPriority_First(loan_list) == loan_list[1]

(* max(high_interest_loans, key=interest_rate): the first of the greatest *)
TopPriority(loan_list) ==
  loan_list[CHOOSE i \in 1..Len(loan_list) :
              /\ \A j \in 1..Len(loan_list) :
                   loan_list[j].interest_rate <= loan_list[i].interest_rate
              /\ \A j \in 1..(i - 1) :
                   loan_list[j].interest_rate < loan_list[i].interest_rate]
(***************************************************************************)
(* _financial_snapshot.  Rupee integers stay rupees; every float amount is *)
(* in paise and every percentage in hundredths of a percent.              *)
(***************************************************************************)
(* the alert with the 80 percent test taken as strictly greater *)
CreditCardAlert_StrictUrgent(credit_card_utilization_ratio, credit_card_total_limit) ==
  IF credit_card_utilization_ratio > 8000
    THEN "Card utilization is above 80%. Focus on repayment and pause new spends."
  ELSE IF credit_card_utilization_ratio >= 5000
    THEN "Card utilization is moderate-high. Target utilization below 30%."
  ELSE IF credit_card_total_limit > 0
    THEN "Card utilization is in a healthier range. Maintain timely payments."
  ELSE "No card limit configured yet. Add card limits for better debt tracking."

(* the if/elif chain on credit_card_utilization_ratio *)
CreditCardAlert(credit_card_utilization_ratio, credit_card_total_limit) ==
  IF credit_card_utilization_ratio >= 8000
    THEN "Card utilization is above 80%. Focus on repayment and pause new spends."
  ELSE IF credit_card_utilization_ratio >= 5000
    THEN "Card utilization is moderate-high. Target utilization below 30%."
  ELSE IF credit_card_total_limit > 0
    THEN "Card utilization is in a healthier range. Maintain timely payments."
  ELSE "No card limit configured yet. Add card limits for better debt tracking."

(* the chain with the loan count tested before the EMI ratio *)
RepaymentStrategy_CountFirst(active_loans, upcoming_loans, emi_ratio, emi_yellow_limit) ==
  IF active_loans = <<>> THEN
    (IF upcoming_loans # <<>>
       THEN <<"No active EMI. Upcoming loan starts on",
              strftime_dbY(MinDate([i \in 1..Len(upcoming_loans) |->
                                      upcoming_loans[i].start_date]))>>
       ELSE <<"No active loans. Keep saving and avoid new high-interest debt.">>)
  ELSE IF Len(active_loans) > 1 THEN <<"Use snowball or avalanche">>
  ELSE IF emi_ratio > emi_yellow_limit THEN <<"Use avalanche method">>
  ELSE <<"Single loan detected">>

(* the if/elif chain that picks repayment_strategy; a text with a date is  *)
(* the pair of its wording and the formatted date                          *)
RepaymentStrategy(active_loans, upcoming_loans, emi_ratio, emi_yellow_limit) ==
  IF active_loans = <<>> THEN
    (IF upcoming_loans # <<>>
       THEN <<"No active EMI. Upcoming loan starts on",
              strftime_dbY(MinDate([i \in 1..Len(upcoming_loans) |->
                                      upcoming_loans[i].start_date]))>>
       ELSE <<"No active loans. Keep saving and avoid new high-interest debt.">>)
  ELSE IF emi_ratio > emi_yellow_limit THEN <<"Use avalanche method">>
  ELSE IF Len(active_loans) > 1 THEN <<"Use snowball or avalanche">>
  ELSE <<"Single loan detected">>

(* the returned dict, from the rows the function has fetched *)
FinancialSnapshotDict(settings_obj, income_obj, loan_list, loan_breakdown, cc_snapshot, budget_obj) ==
  LET total_income_ == IF IsNone(income_obj) THEN 0 ELSE total_income(Val(income_obj))
      active_loans == loan_breakdown.active_loans
      upcoming_loans == loan_breakdown.upcoming_loans
      closed_loans == loan_breakdown.closed_loans
      total_emi == SeqSum([i \in 1..Len(active_loans) |-> active_loans[i].monthly_emi])
      credit_card_total_emi == cc_snapshot.total_emi_amount
      credit_card_total_spend == cc_snapshot.total_monthly_spend_amount
      credit_card_total_outstanding == cc_snapshot.total_amount
      credit_card_total_limit ==
        SeqSum([j \in 1..Len(cc_snapshot.per_card_rows) |->
                  Max(0, cc_snapshot.per_card_rows[j].credit_limit)])
      credit_card_utilization_ratio ==
        IF credit_card_total_limit > 0
          THEN Round2(Rat(credit_card_total_outstanding, credit_card_total_limit))
          ELSE 0
      credit_card_due_estimate == credit_card_total_emi + credit_card_total_spend
      total_monthly_obligation == 100 * total_emi + credit_card_due_estimate
      overall_burden_ratio ==
        IF total_income_ > 0 THEN Round2(Rat(total_monthly_obligation, total_income_))
        ELSE IF total_monthly_obligation > 0 THEN 10000 ELSE 0
      emi_ratio ==
        IF total_income_ > 0 THEN Round2(Rat(total_emi * 100, total_income_))
        ELSE IF total_emi > 0 THEN 10000 ELSE 0
      health_class == ZoneClass(emi_ratio, settings_obj.emi_green_limit,
                                settings_obj.emi_yellow_limit)
      zone_suggestion ==
        IF health_class = "green" THEN "Safe zone: continue good discipline."
        ELSE IF health_class = "yellow"
          THEN "Risky zone: reduce expenses 10-15%, consider refinancing."
        ELSE "Danger zone: use avalanche/snowball method."
      overall_health_class == ZoneClass(overall_burden_ratio,
                                        settings_obj.emi_green_limit,
                                        settings_obj.emi_yellow_limit)
      total_budget_expense == IF IsNone(budget_obj) THEN 0 ELSE total_expense(Val(budget_obj))
      remaining_after_emi == total_income_ - total_emi
      remaining_after_obligations == 100 * total_income_ - total_monthly_obligation
      net_savings == remaining_after_emi - total_budget_expense
      net_savings_after_cards == remaining_after_obligations - 100 * total_budget_expense
      savings_target == Round2(Rat(total_income_ * settings_obj.savings_target_percent, 10000))
      high_interest_loans ==
        Pick(active_loans,
             SelectIdx([i \in 1..Len(active_loans) |->
                          active_loans[i].interest_rate > settings_obj.high_interest_rate_limit],
                       Len(active_loans)))
      planning_loans == active_loans \o upcoming_loans
      latest_end_date == MaxDate([i \in 1..Len(planning_loans) |-> planning_loans[i].end_date])
      next_start == MinDate([i \in 1..Len(upcoming_loans) |-> upcoming_loans[i].start_date])
  IN [income_obj |-> income_obj,
      budget_obj |-> budget_obj,
      loans |-> loan_list,
      active_loans |-> active_loans,
      upcoming_loans |-> upcoming_loans,
      closed_loans |-> closed_loans,
      loan_runtime_rows |-> loan_breakdown.runtime_rows,
      active_loan_count |-> Len(active_loans),
      upcoming_loan_count |-> Len(upcoming_loans),
      closed_loan_count |-> Len(closed_loans),
      credit_card_spends |-> cc_snapshot.entries,
      credit_card_accounts |-> cc_snapshot.cards,
      credit_card_card_rows |-> cc_snapshot.per_card_rows,
      credit_card_total_spend |-> credit_card_total_spend,
      credit_card_current_month_label |-> strftime_bY(cc_snapshot.current_statement_month),
      credit_card_total_emi |-> credit_card_total_emi,
      credit_card_active_emi_count |-> cc_snapshot.active_emi_entry_count,
      credit_card_total_emi_remaining_balance |-> cc_snapshot.total_emi_remaining_balance,
      credit_card_total_outstanding |-> credit_card_total_outstanding,
      credit_card_total_limit |-> credit_card_total_limit,
      credit_card_available_limit |->
        Max(0, 100 * credit_card_total_limit - credit_card_total_outstanding),
      credit_card_utilization_ratio |-> credit_card_utilization_ratio,
      credit_card_utilization_progress |->
        Max(0, Min(10000, Round1H(credit_card_utilization_ratio))),
      credit_card_min_due_estimate |->
        Round2(Rat(100 * credit_card_total_emi + 5 * credit_card_total_spend, 10000)),
      credit_card_due_estimate |-> credit_card_due_estimate,
      credit_card_min_due_total |-> cc_snapshot.legacy_min_due,
      credit_card_weighted_apr |-> cc_snapshot.weighted_apr,
      credit_card_monthly_interest |-> cc_snapshot.monthly_interest_estimate,
      credit_card_monthly_rewards |-> cc_snapshot.monthly_reward_estimate,
      credit_card_monthly_net_cost |-> cc_snapshot.monthly_net_cost,
      total_income |-> total_income_,
      total_emi |-> total_emi,
      total_monthly_obligation |-> total_monthly_obligation,
      emi_ratio |-> emi_ratio,
      overall_burden_ratio |-> overall_burden_ratio,
      overall_burden_progress |-> Max(0, Min(10000, Round1H(overall_burden_ratio))),
      overall_health_class |-> overall_health_class,
      overall_suggestion |->
        IF overall_health_class = "green"
          THEN "Safe zone: overall debt burden is manageable."
        ELSE IF overall_health_class = "yellow"
          THEN "Risky zone: cut discretionary spend and reduce card utilization."
        ELSE "Danger zone: prioritize debt repayment and avoid new card spends.",
      credit_card_alert |->
        CreditCardAlert(credit_card_utilization_ratio, credit_card_total_limit),
      health_class |-> health_class,
      smart_suggestion |->
        IF active_loans = <<>> /\ upcoming_loans # <<>>
          THEN "No active EMI right now. Build buffer before upcoming loans start."
          ELSE zone_suggestion,
      total_budget_expense |-> total_budget_expense,
      remaining_after_emi |-> remaining_after_emi,
      remaining_after_obligations |-> remaining_after_obligations,
      net_savings |-> net_savings,
      net_savings_after_cards |-> net_savings_after_cards,
      savings_target |-> savings_target,
      emi_progress |-> IF total_income_ > 0
                         THEN Progress(Rat(total_emi * 100, total_income_))
                         ELSE 0,
      savings_progress |->
        IF savings_target > 0
          THEN Progress(RMul(Rat(net_savings * 100, savings_target), RInt(100)))
          ELSE 0,
      savings_progress_after_cards |->
        IF savings_target > 0
          THEN Progress(RMul(Rat(net_savings_after_cards, savings_target), RInt(100)))
          ELSE 0,
      high_interest_loans |-> high_interest_loans,
      priority_suggestion |->
        IF high_interest_loans # <<>>
          THEN <<"Prioritize", TopPriority(high_interest_loans).loan_type,
                 TopPriority(high_interest_loans).interest_rate>>
          ELSE <<"No high-interest loan priority right now.">>,
      refinancing_suggestion |->
        IF high_interest_loans # <<>>
          THEN <<"Consider refinancing", Len(high_interest_loans),
                 Round1H(settings_obj.high_interest_rate_limit)>>
          ELSE <<"No refinancing alert. Current rates are within threshold.">>,
      repayment_strategy |->
        RepaymentStrategy(active_loans, upcoming_loans, emi_ratio,
                          settings_obj.emi_yellow_limit),
      debt_free_text |->
        IF planning_loans = <<>> THEN <<"No active loans">>
        ELSE IF active_loans = <<>> /\ upcoming_loans # <<>>
          THEN <<"Starts", strftime_dbY(next_start), "Debt-free by",
                 strftime_dbY(latest_end_date), _months_to_date(today, latest_end_date)>>
          ELSE <<strftime_dbY(latest_end_date), _months_to_date(today, latest_end_date)>>,
      green_limit |-> settings_obj.emi_green_limit,
      yellow_limit |-> settings_obj.emi_yellow_limit,
      high_interest_limit |-> settings_obj.high_interest_rate_limit,
      savings_target_percent |-> settings_obj.savings_target_percent]

(* the function once the income, loans, card snapshot and budget are fetched *)
FinancialSnapshotOf(settings_obj, income_obj, loan_list, cc_snapshot, budget_obj) ==
  FinancialSnapshotDict(settings_obj, income_obj, loan_list,
                        _loan_runtime_breakdown(loan_list, today), cc_snapshot, budget_obj)

_financial_snapshot(user, settings_obj) ==
  FinancialSnapshotOf(settings_obj, incomes[user], UserLoans(user),
                      _credit_card_snapshot(user, today), budgets[user])

(***************************************************************************)
(* _build_chart_payload; every chart value is in paise                     *)
(***************************************************************************)
(* the loop stops one month early *)
TimelineContinues_Strict(cursor, max_end_month) == DateLT(cursor, max_end_month)

(* the `while cursor <= max_end_month` test *)
TimelineContinues(cursor, max_end_month) == DateLE(cursor, max_end_month)

RECURSIVE TimelineLoop(_, _, _)
(* the while loop: the <<label, value>> points from cursor on *)
TimelineLoop(timeline_loans, cursor, max_end_month) ==
  IF ~TimelineContinues(cursor, max_end_month) THEN <<>>
  ELSE LET month_total ==
             SeqSum([i \in 1..Len(timeline_loans) |->
                       _loan_remaining_balance_at_month(timeline_loans[i], cursor)])
       IN <<[label |-> strftime_bY(cursor), value |-> month_total]>>
            \o TimelineLoop(timeline_loans, _next_month_start(cursor), max_end_month)

_build_chart_payload(snapshot) ==
  LET active_loans == snapshot.active_loans
      upcoming_loans == snapshot.upcoming_loans
      chart_loans == IF active_loans # <<>> THEN active_loans ELSE upcoming_loans
      planning == active_loans \o upcoming_loans
      timeline_loans ==
        Pick(planning, SortIdx([i \in 1..Len(planning) |-> <<DateOrd(planning[i].end_date)>>]))
      card_emi == snapshot.credit_card_total_emi
      card_spend == snapshot.credit_card_total_spend
      debt ==
        [i \in 1..Len(chart_loans) |->
           [label |-> chart_loans[i].loan_type, value |-> 100 * chart_loans[i].monthly_emi]]
        \o (IF card_emi > 0
              THEN <<[label |-> "Card EMI (Active)", value |-> card_emi]>> ELSE <<>>)
        \o (IF card_spend > 0
              THEN <<[label |-> "Card Spend (Current Month)", value |-> card_spend]>>
              ELSE <<>>)
      distribution == IF debt = <<>> THEN <<[label |-> "No Active Debt", value |-> 100]>>
                      ELSE debt
      timeline ==
        IF timeline_loans # <<>>
          THEN TimelineLoop(timeline_loans, _month_start_value(today),
                            MaxDate([i \in 1..Len(timeline_loans) |->
                                       _month_start_value(timeline_loans[i].end_date)]))
          ELSE <<[label |-> strftime_bY(today), value |-> 0]>>
  IN [emi_distribution |->
        [labels |-> [i \in 1..Len(distribution) |-> distribution[i].label],
         values |-> [i \in 1..Len(distribution) |-> distribution[i].value]],
      cashflow |->
        [labels |-> <<"Income", "Loan EMI", "Card EMI (Active)",
                      "Card Spend (Current Month)", "Budget Expenses", "Net Savings">>,
         values |-> <<100 * snapshot.total_income, 100 * snapshot.total_emi, card_emi,
                      card_spend, 100 * snapshot.total_budget_expense,
                      snapshot.net_savings_after_cards>>],
      loan_timeline |->
        [labels |-> [i \in 1..Len(timeline) |-> timeline[i].label],
         values |-> [i \in 1..Len(timeline) |-> timeline[i].value]]]
(***************************************************************************)
(* The handlers.  A record's id is its position in its table; a request    *)
(* for an id that is absent or owned by another user is a 404 and changes  *)
(* nothing.                                                                *)
(***************************************************************************)
(***************************************************************************)
(* _risk_profile(snapshot): the admin pages' classifier.  Ratios and rates *)
(* are in hundredths of a percent, as in the snapshot.                     *)
(***************************************************************************)
(* snapshot.get('active_loans') or snapshot['loans']: an empty list is     *)
(* falsy, so the fallback is taken when there is no active loan            *)
RiskLoans(snapshot) ==
  IF snapshot.active_loans # <<>> THEN snapshot.active_loans ELSE snapshot.loans

(* budget_total > (income_total * 0.75) with no test of the income *)
ExpenseSpike_AnyIncome(income_total, budget_total) ==
  4 * budget_total > 3 * income_total

(* income_total > 0 and budget_total > (income_total * 0.75) *)
ExpenseSpike(income_total, budget_total) ==
  income_total > 0 /\ 4 * budget_total > 3 * income_total

_risk_profile(snapshot) ==
  LET emi_ratio == snapshot.emi_ratio
      debt_load_ratio == Max(emi_ratio, snapshot.overall_burden_ratio)
      loans_ == RiskLoans(snapshot)
      high_interest_extreme == \E i \in 1..Len(loans_) : loans_[i].interest_rate > 1800
      has_many_loans == Len(loans_) > 3
      high_emi == debt_load_ratio > 6000
      medium_emi == 4000 <= debt_load_ratio /\ debt_load_ratio <= 6000
      expense_spike == ExpenseSpike(snapshot.total_income, snapshot.total_budget_expense)
      high_reasons ==
        (IF high_emi THEN <<"Overall debt obligation ratio above 60%.">> ELSE <<>>)
          \o (IF has_many_loans THEN <<"More than 3 active loans.">> ELSE <<>>)
          \o (IF high_interest_extreme
                THEN <<"At least one loan above 18% interest.">> ELSE <<>>)
  IN IF high_emi \/ has_many_loans \/ high_interest_extreme
       THEN [level |-> "high", label |-> "High Risk", reasons |-> high_reasons,
             expense_spike |-> expense_spike]
     ELSE IF medium_emi \/ expense_spike
       THEN [level |-> "medium", label |-> "Medium Risk",
             reasons |->
               (IF medium_emi
                  THEN <<"Overall debt obligation ratio between 40% and 60%.">>
                  ELSE <<>>)
                 \o (IF expense_spike
                       THEN <<"Expense spike detected in budget categories.">>
                       ELSE <<>>),
             expense_spike |-> expense_spike]
     ELSE [level |-> "low", label |-> "Low Risk",
           reasons |->
             IF debt_load_ratio < 3000
               THEN <<"Overall debt obligation ratio is under 30%.">>
                      \o (IF loans_ = <<>> /\ snapshot.upcoming_loans # <<>>
                            THEN <<"No active EMI yet; upcoming loans are scheduled.">>
                            ELSE <<>>)
               ELSE <<"Debt load is manageable with current inputs.">>,
           expense_spike |-> expense_spike]

MaxLoans == 2

MaxCards == 2

MaxEntries == 2

MaxAudit == 2

(* timezone.localdate() moves on *)
Tick(later) ==
  /\ DateLT(today, later)
  /\ today' = later
  /\ UNCHANGED <<incomes, loans, budgets, cards, entries, settings, audit, probe>>

SaveIncome(user, monthly_salary, other_income) ==
  LET salary == _validate_integer_field(monthly_salary, 0, MaxIntegerField)
      other == _validate_integer_field(other_income, 0, MaxIntegerField)
  IN IF salary[2] # "" \/ other[2] # "" THEN incomes
     ELSE [incomes EXCEPT ![user] =
             Some([monthly_salary |-> Val(salary[1]), other_income |-> Val(other[1])])]

add_income(user, monthly_salary, other_income) ==
  /\ incomes' = SaveIncome(user, monthly_salary, other_income)
  /\ UNCHANGED <<today, loans, budgets, cards, entries, settings, audit, probe>>

edit_income(user, monthly_salary, other_income) ==
  /\ incomes' = IF IsNone(incomes[user]) THEN incomes
                ELSE SaveIncome(user, monthly_salary, other_income)
  /\ UNCHANGED <<today, loans, budgets, cards, entries, settings, audit, probe>>

(* the Loan row written from a cleaned submission *)
LoanRow(user, cleaned) ==
  [user |-> user,
   loan_type |-> cleaned.loan_type,
   lender |-> cleaned.lender,
   principal |-> cleaned.principal,
   monthly_emi |-> cleaned.monthly_emi,
   interest_rate |-> cleaned.interest_rate,
   start_date |-> cleaned.start_date,
   end_date |-> cleaned.end_date]

add_loan(user, form) ==
  /\ LET submission == _validate_loan_form_submission(form, today, FALSE)
     IN loans' = IF IsNone(submission[1]) THEN loans
                 ELSE Append(loans, LoanRow(user, Val(submission[1])))
  /\ UNCHANGED <<today, incomes, budgets, cards, entries, settings, audit, probe>>

(* the loan is fetched by id alone *)
edit_loan_AnyOwner(user, loan_id, form) ==
  /\ loan_id \in 1..Len(loans)
  /\ LET submission == _validate_loan_form_submission(form, today, TRUE)
     IN loans' = IF IsNone(submission[1]) THEN loans
                 ELSE [loans EXCEPT ![loan_id] = LoanRow(user, Val(submission[1]))]
  /\ UNCHANGED <<today, incomes, budgets, cards, entries, settings, audit, probe>>

edit_loan(user, loan_id, form) ==
  /\ loan_id \in 1..Len(loans)
  /\ LET submission == _validate_loan_form_submission(form, today, TRUE)
     IN loans' = IF loans[loan_id].user # user \/ IsNone(submission[1]) THEN loans
                 ELSE [loans EXCEPT ![loan_id] = LoanRow(user, Val(submission[1]))]
  /\ UNCHANGED <<today, incomes, budgets, cards, entries, settings, audit, probe>>

delete_loan(user, loan_id) ==
  /\ loan_id \in 1..Len(loans)
  /\ loans' = IF loans[loan_id].user # user THEN loans ELSE RemoveAt(loans, loan_id)
  /\ UNCHANGED <<today, incomes, budgets, cards, entries, settings, audit, probe>>

(* <<cleaned, errors>> *)
_validate_credit_card_form_payload(payload) ==
  LET e_name == IF payload.card_name = "" THEN {"Card name is required."}
                ELSE IF TextTooLong(payload.card_name) THEN {"Card name is too long."}
                ELSE {}
      e_issuer == IF TextTooLong(payload.issuer) THEN {"Issuer name is too long."} ELSE {}
      credit_limit == _validate_integer_field(payload.credit_limit, 1, 1000000000)
      emi_interest_rate == _validate_float_field(payload.emi_interest_rate, 0, 10000)
      monthly_spend_interest_rate ==
        _validate_float_field(payload.monthly_spend_interest_rate, 0, 10000)
      reward_percent == _validate_float_field(payload.reward_percent, 0, 10000)
  IN <<[card_name |-> payload.card_name,
        issuer |-> payload.issuer,
        credit_limit |-> credit_limit[1],
        emi_interest_rate |-> emi_interest_rate[1],
        monthly_spend_interest_rate |-> monthly_spend_interest_rate[1],
        reward_percent |-> reward_percent[1]],
       e_name \cup e_issuer
         \cup (IF credit_limit[2] # "" THEN {"Card total limit " \o credit_limit[2]} ELSE {})
         \cup (IF emi_interest_rate[2] # ""
                 THEN {"EMI interest rate " \o emi_interest_rate[2]} ELSE {})
         \cup (IF monthly_spend_interest_rate[2] # ""
                 THEN {"Monthly spend interest rate " \o monthly_spend_interest_rate[2]}
                 ELSE {})
         \cup (IF reward_percent[2] # ""
                 THEN {"Reward percent " \o reward_percent[2]} ELSE {})>>

CardRow(user, cleaned) ==
  [user |-> user,
   card_name |-> cleaned.card_name,
   issuer |-> cleaned.issuer,
   credit_limit |-> Val(cleaned.credit_limit),
   emi_interest_rate |-> Val(cleaned.emi_interest_rate),
   monthly_spend_interest_rate |-> Val(cleaned.monthly_spend_interest_rate),
   reward_percent |-> Val(cleaned.reward_percent)]

credit_card_add_view(user, card_form) ==
  /\ Len(cards) < MaxCards
  /\ LET cleaned == _validate_credit_card_form_payload(card_form)
     IN cards' = IF cleaned[2] # {} THEN cards
                 ELSE Append(cards, CardRow(user, cleaned[1]))
  /\ UNCHANGED <<today, incomes, loans, budgets, entries, settings, audit, probe>>

credit_card_edit_view(user, card_id, card_form) ==
  /\ card_id \in 1..Len(cards)
  /\ LET cleaned == _validate_credit_card_form_payload(card_form)
     IN cards' = IF cards[card_id].user # user \/ cleaned[2] # {} THEN cards
                 ELSE [cards EXCEPT ![card_id] = CardRow(user, cleaned[1])]
  /\ UNCHANGED <<today, incomes, loans, budgets, entries, settings, audit, probe>>

(* on_delete=CASCADE: the card's entries go with it; the ids above shift *)
EntriesWithoutCard(card_id) ==
  LET kept == Pick(entries, SelectIdx([i \in 1..Len(entries) |->
                                         entries[i].card # card_id], Len(entries)))
  IN [i \in 1..Len(kept) |->
        IF kept[i].card > card_id THEN [kept[i] EXCEPT !.card = @ - 1] ELSE kept[i]]

(* action = 'delete_card' *)
credit_cards_view(user, card_id) ==
  /\ card_id \in 1..Len(cards)
  /\ cards' = IF cards[card_id].user # user THEN cards ELSE RemoveAt(cards, card_id)
  /\ entries' = IF cards[card_id].user # user THEN entries
                ELSE EntriesWithoutCard(card_id)
  /\ UNCHANGED <<today, incomes, loans, budgets, settings, audit, probe>>

(* <<date or None, error>> *)
_parse_statement_month(raw_value) ==
  IF raw_value.kind = "blank" THEN <<None, "Statement month is required.">>
  ELSE IF raw_value.kind = "bad"
    THEN <<None, "Statement month must be in YYYY-MM format.">>
  ELSE <<Some(Date(raw_value.v.y, raw_value.v.m, 1)), "">>

(* a description of more than 200 characters *)
LongDescription == "text-of-201-characters"

(* the entries table after action in {'add_spend', 'save_spend', 'save_entry'} *)
SaveEntry(user, card_id, entry_form) ==
  LET edit_target_id == entry_form.entry_id
      found == /\ edit_target_id \in 1..Len(entries)
               /\ entries[edit_target_id].card = card_id
      e_target == IF edit_target_id # 0 /\ ~found
                  THEN {"Entry not found for update."} ELSE {}
      entry_type == entry_form.entry_type
      e_type == IF entry_type \notin {TYPE_MONTHLY_SPEND, TYPE_EMI}
                THEN {"Entry type is invalid."} ELSE {}
      entry_month == _parse_statement_month(entry_form.entry_month)
      e_month == IF entry_month[2] # "" THEN {entry_month[2]} ELSE {}
      amount == _validate_integer_field(entry_form.amount, 1, MaxIntegerField)
      e_amount == IF amount[2] # "" THEN {"Spend amount " \o amount[2]} ELSE {}
      tenure == IF entry_type = TYPE_EMI
                  THEN _validate_integer_field(entry_form.tenure_months, 1, 240)
                  ELSE <<Some(1), "">>
      e_tenure == IF tenure[2] # "" THEN {"EMI tenure (months) " \o tenure[2]} ELSE {}
      e_description == IF entry_form.description = LongDescription
                       THEN {"Description must be 200 characters or less."} ELSE {}
      errors == e_target \cup e_type \cup e_month \cup e_amount \cup e_tenure
                  \cup e_description
      row == [card |-> card_id,
              entry_month |-> Val(entry_month[1]),
              entry_type |-> entry_type,
              amount |-> Val(amount[1]),
              tenure_months |-> IF entry_type = TYPE_EMI THEN Val(tenure[1]) ELSE 1,
              description |-> entry_form.description]
  IN IF errors # {} THEN entries
     ELSE IF edit_target_id # 0 THEN [entries EXCEPT ![edit_target_id] = row]
     ELSE Append(entries, row)

(* the entries table after action = 'delete_entry' *)
DeleteEntry(card_id, entry_id) ==
  IF entry_id \in 1..Len(entries) /\ entries[entry_id].card = card_id
    THEN RemoveAt(entries, entry_id)
    ELSE entries

credit_card_spend_view(user, card_id, entry_form) ==
  /\ card_id \in 1..Len(cards)
  /\ entry_form.action = "delete_entry" \/ entry_form.entry_id # 0
        \/ Len(entries) < MaxEntries
  /\ entries' = IF cards[card_id].user # user THEN entries
                ELSE IF entry_form.action = "delete_entry"
                  THEN DeleteEntry(card_id, entry_form.entry_id)
                ELSE IF entry_form.action \in {"add_spend", "save_spend", "save_entry"}
                  THEN SaveEntry(user, card_id, entry_form)
                ELSE entries
  /\ UNCHANGED <<today, incomes, loans, budgets, cards, settings, audit, probe>>

(* Budget.objects.get_or_create(user=request.user), then the POST *)
budget_view(user, post) ==
  /\ LET budget == IF IsNone(budgets[user])
                     THEN [grocery |-> 0, rent |-> 0, transport |-> 0, entertainment |-> 0]
                     ELSE Val(budgets[user])
         grocery == _validate_integer_field(post.grocery, 0, MaxIntegerField)
         rent == _validate_integer_field(post.rent, 0, MaxIntegerField)
         transport == _validate_integer_field(post.transport, 0, MaxIntegerField)
         entertainment == _validate_integer_field(post.entertainment, 0, MaxIntegerField)
     IN budgets' = [budgets EXCEPT ![user] =
          IF \/ post.method # "POST"
             \/ grocery[2] # "" \/ rent[2] # "" \/ transport[2] # ""
             \/ entertainment[2] # ""
            THEN Some(budget)
            ELSE Some([grocery |-> Val(grocery[1]), rent |-> Val(rent[1]),
                       transport |-> Val(transport[1]),
                       entertainment |-> Val(entertainment[1])])]
  /\ UNCHANGED <<today, incomes, loans, cards, entries, settings, audit, probe>>

(* _to_float(value, default): a number, or the default when float() raises *)
_to_float(value, default) == IF IsVal(value) THEN value.v ELSE default

(* an advisory message of more than 500 characters *)
LongAdvisory == "text-of-501-characters"

(* the zone test lets the two limits coincide *)
SystemControlErrors_EqualLimits(green_limit, yellow_limit, high_interest_limit, savings_target, advisory_message) ==
  (IF green_limit < 0 \/ yellow_limit > 10000 \/ green_limit > yellow_limit
     THEN {"Set EMI limits as: green >= 0, yellow <= 100, and green < yellow."} ELSE {})
  \cup (IF high_interest_limit <= 0
          THEN {"High-interest threshold must be greater than 0."} ELSE {})
  \cup (IF savings_target <= 0 \/ savings_target >= 10000
          THEN {"Savings target percent must be between 1 and 99."} ELSE {})
  \cup (IF advisory_message = LongAdvisory
          THEN {"Global advisory message must be 500 characters or less."} ELSE {})

(* the errors of a POST to admin_system_controls *)
SystemControlErrors(green_limit, yellow_limit, high_interest_limit, savings_target, advisory_message) ==
  (IF green_limit < 0 \/ yellow_limit > 10000 \/ green_limit >= yellow_limit
     THEN {"Set EMI limits as: green >= 0, yellow <= 100, and green < yellow."} ELSE {})
  \cup (IF high_interest_limit <= 0
          THEN {"High-interest threshold must be greater than 0."} ELSE {})
  \cup (IF savings_target <= 0 \/ savings_target >= 10000
          THEN {"Savings target percent must be between 1 and 99."} ELSE {})
  \cup (IF advisory_message = LongAdvisory
          THEN {"Global advisory message must be 500 characters or less."} ELSE {})

admin_system_controls(post) ==
  LET green_limit == _to_float(post.emi_green_limit, settings.emi_green_limit)
      yellow_limit == _to_float(post.emi_yellow_limit, settings.emi_yellow_limit)
      high_interest_limit ==
        _to_float(post.high_interest_rate_limit, settings.high_interest_rate_limit)
      savings_target ==
        _to_float(post.savings_target_percent, settings.savings_target_percent)
      errors == SystemControlErrors(green_limit, yellow_limit, high_interest_limit,
                                    savings_target, post.advisory_message)
  IN /\ audit < MaxAudit
     /\ settings' = IF errors # {} THEN settings
                    ELSE [emi_green_limit |-> green_limit,
                          emi_yellow_limit |-> yellow_limit,
                          high_interest_rate_limit |-> high_interest_limit,
                          savings_target_percent |-> savings_target,
                          advisory_message |-> post.advisory_message]
     /\ audit' = IF errors # {} THEN audit ELSE audit + 1
     /\ UNCHANGED <<today, incomes, loans, budgets, cards, entries, probe>>
(***************************************************************************)
(* The state after the migrations: no rows, the default settings           *)
(***************************************************************************)
FirstDay == Date(2025, 1, 15)

ClockDates == {Date(2025, 1, 15), Date(2025, 2, 10), Date(2025, 3, 20)}

NoProbe == [fn |-> "none"]

EmptyStore ==
  /\ today = FirstDay
  /\ incomes = [u \in Users |-> None]
  /\ loans = <<>>
  /\ budgets = [u \in Users |-> None]
  /\ cards = <<>>
  /\ entries = <<>>
  /\ settings = DefaultSettings
  /\ audit = 0

Init == EmptyStore /\ probe = NoProbe

(***************************************************************************)
(* SpecLedger: the credit-card pages and the clock                         *)
(***************************************************************************)
CardForm(card_name, credit_limit, emi_interest_rate, reward_percent) ==
  [card_name |-> card_name,
   issuer |-> "",
   credit_limit |-> credit_limit,
   emi_interest_rate |-> emi_interest_rate,
   monthly_spend_interest_rate |-> Num(0),
   reward_percent |-> reward_percent]

LedgerCardForms ==
  {CardForm("Gold", Num(5000), Num(1200), Num(100)),
   CardForm("Visa", Num(2000), Num(0), Num(0)),
   CardForm("", Num(2000), Num(0), Bad)}

EntryMonths == {Date(2024, 12, 1), Date(2025, 1, 1), Date(2025, 3, 1)}

LedgerEntryForms ==
  [action : {"save_entry"},
   entry_id : {0, 1},
   entry_type : {TYPE_EMI, TYPE_MONTHLY_SPEND},
   entry_month : {Num(d) : d \in EntryMonths},
   amount : {Num(1200), Num(0)},
   tenure_months : {Num(2), Blank},
   description : {""}]
  \cup
  [action : {"delete_entry"},
   entry_id : 1..MaxEntries,
   entry_type : {TYPE_EMI},
   entry_month : {Blank},
   amount : {Blank},
   tenure_months : {Blank},
   description : {""}]

NextLedger ==
  \/ \E later \in ClockDates : Tick(later)
  \/ \E user \in Users, card_form \in LedgerCardForms :
       credit_card_add_view(user, card_form)
  \/ \E user \in Users, card_id \in 1..MaxCards, card_form \in LedgerCardForms :
       credit_card_edit_view(user, card_id, card_form)
  \/ \E user \in Users, card_id \in 1..MaxCards : credit_cards_view(user, card_id)
  \/ \E user \in Users, card_id \in 1..MaxCards, entry_form \in LedgerEntryForms :
       credit_card_spend_view(user, card_id, entry_form)

SpecLedger == Init /\ [][NextLedger]_vars

(***************************************************************************)
(* Sums over sets of row ids, for the statements about the ledger          *)
(***************************************************************************)
RECURSIVE SumOver(_, _)
(* the sum of f[i] over the ids i of S *)
SumOver(S, f) ==
  IF S = {} THEN 0
  ELSE LET i == CHOOSE x \in S : TRUE IN f[i] + SumOver(S \ {i}, f)

EntryIds == 1..Len(entries)

SameMonth(a, b) == a.y = b.y /\ a.m = b.m

(* the user's monthly-spend entries of the month of `today` *)
CurrentSpendIds(user) ==
  {i \in EntryIds : /\ cards[entries[i].card].user = user
                    /\ entries[i].entry_type = TYPE_MONTHLY_SPEND
                    /\ SameMonth(entries[i].entry_month, today)}

SpendPaise == [i \in EntryIds |-> 100 * entries[i].amount]

SpendReward ==
  [i \in EntryIds |->
     Round2(Rat(entries[i].amount * cards[entries[i].card].reward_percent, 10000))]

(* C1: a monthly-spend entry counts in the spend, outstanding, reward and  *)
(* due totals, of the portfolio and of its card, exactly when its month is *)
(* the month of the reference date: every total is the sum over the        *)
(* current-month spend entries alone.                                      *)
C1_SpendCountsCurrentMonthOnly ==
  \A user \in Users :
    LET snapshot == _financial_snapshot(user, settings)
        ledger == _credit_card_snapshot(user, today)
        current == CurrentSpendIds(user)
    IN /\ snapshot.credit_card_total_spend = SumOver(current, SpendPaise)
       /\ snapshot.credit_card_total_outstanding
            - snapshot.credit_card_total_emi_remaining_balance
              = SumOver(current, SpendPaise)
       /\ snapshot.credit_card_due_estimate - snapshot.credit_card_total_emi
            = SumOver(current, SpendPaise)
       /\ snapshot.credit_card_monthly_rewards = SumOver(current, SpendReward)
       /\ \A j \in 1..Len(ledger.per_card_rows) :
            LET row == ledger.per_card_rows[j]
                own == {i \in current : entries[i].card = row.card_id}
            IN /\ row.monthly_spend_amount = SumOver(own, SpendPaise)
               /\ row.total_amount - row.emi_remaining_balance = SumOver(own, SpendPaise)
               /\ row.reward_estimate = SumOver(own, SpendReward)
               /\ row.spend_entry_count = Cardinality(own)

(* a user with a spend entry of this month and one of another month *)
C1_Witness ==
  \E user \in Users :
    /\ CurrentSpendIds(user) # {}
    /\ \E i \in EntryIds : /\ cards[entries[i].card].user = user
                           /\ entries[i].entry_type = TYPE_MONTHLY_SPEND
                           /\ ~SameMonth(entries[i].entry_month, today)
    /\ _financial_snapshot(user, settings).credit_card_total_spend = 120000
(* the months from an EMI entry's month to the month of `today` *)
EntryElapsed(i) ==
  _month_gap(_month_start_value(entries[i].entry_month), _month_start_value(today))

(* the user's EMI entries inside their tenure window *)
ActiveEmiIds(user) ==
  {i \in EntryIds : /\ cards[entries[i].card].user = user
                    /\ entries[i].entry_type = TYPE_EMI
                    /\ 0 <= EntryElapsed(i)
                    /\ EntryElapsed(i) < entries[i].tenure_months}

EmiDue ==
  [i \in EntryIds |->
     100 * _card_emi_monthly_due(entries[i].amount,
                                 cards[entries[i].card].emi_interest_rate,
                                 entries[i].tenure_months)]

EmiBalance ==
  [i \in EntryIds |->
     _card_emi_remaining_balance(entries[i].amount,
                                 cards[entries[i].card].emi_interest_rate,
                                 entries[i].tenure_months, EntryElapsed(i))]

EmiInterest ==
  [i \in EntryIds |->
     Round2(RMul(FromH(EmiBalance[i]),
                 MonthlyRate(cards[entries[i].card].emi_interest_rate)))]

(* balance (paise) times rate (hundredths of a percent) *)
EmiRateWeight ==
  [i \in EntryIds |-> EmiBalance[i] * cards[entries[i].card].emi_interest_rate]

(* C2: a card EMI entry counts in the EMI due, EMI remaining balance,      *)
(* outstanding, interest, weighted-APR and active-count totals, of the     *)
(* portfolio and of its card, exactly when 0 <= elapsed < tenure_months:   *)
(* every total is the sum over those entries alone.                        *)
C2_EmiCountsInsideTenureOnly ==
  \A user \in Users :
    LET snapshot == _financial_snapshot(user, settings)
        ledger == _credit_card_snapshot(user, today)
        active == ActiveEmiIds(user)
    IN /\ snapshot.credit_card_total_emi = SumOver(active, EmiDue)
       /\ snapshot.credit_card_total_emi_remaining_balance = SumOver(active, EmiBalance)
       /\ snapshot.credit_card_total_outstanding - snapshot.credit_card_total_spend
            = SumOver(active, EmiBalance)
       /\ snapshot.credit_card_monthly_interest = SumOver(active, EmiInterest)
       /\ snapshot.credit_card_active_emi_count = Cardinality(active)
       /\ snapshot.credit_card_weighted_apr =
            IF snapshot.credit_card_total_outstanding > 0
              THEN Round2(Rat(SumOver(active, EmiRateWeight),
                              100 * snapshot.credit_card_total_outstanding))
              ELSE 0
       /\ \A j \in 1..Len(ledger.per_card_rows) :
            LET row == ledger.per_card_rows[j]
                own == {i \in active : entries[i].card = row.card_id}
            IN /\ row.emi_monthly_due = SumOver(own, EmiDue)
               /\ row.emi_remaining_balance = SumOver(own, EmiBalance)
               /\ row.total_amount - row.monthly_spend_amount = SumOver(own, EmiBalance)
               /\ row.interest_estimate = SumOver(own, EmiInterest)
               /\ row.emi_entry_count = Cardinality(own)

(* a user with an EMI entry inside its window, at a positive rate, and one *)
(* past its window                                                         *)
C2_Witness ==
  \E user \in Users :
    /\ \E i \in ActiveEmiIds(user) : EmiInterest[i] > 0
    /\ \E i \in EntryIds : /\ cards[entries[i].card].user = user
                           /\ entries[i].entry_type = TYPE_EMI
                           /\ EntryElapsed(i) >= entries[i].tenure_months
    /\ _financial_snapshot(user, settings).credit_card_active_emi_count = 1
(***************************************************************************)
(* SpecHealth: income, loans, the system controls and the clock            *)
(***************************************************************************)
LoanForm(principal, monthly_emi, interest_rate, loan_period_months, start_date) ==
  [loan_type |-> "Home",
   lender |-> "",
   principal |-> principal,
   monthly_emi |-> monthly_emi,
   interest_rate |-> interest_rate,
   interest_rate_mode |-> "annual",
   loan_period_months |-> loan_period_months,
   months_paid |-> Blank,
   start_date |-> start_date,
   end_date |-> Blank]

HealthLoanForms ==
  {LoanForm(Num(6000), monthly_emi, Num(0), Num(2), Num(FirstDay)) :
     monthly_emi \in {Num(3000), Num(5000), Num(5001), Blank}}

HealthIncomeInputs == {Num(10000), Num(0), Blank}

ControlsPost(emi_green_limit, emi_yellow_limit, high_interest_rate_limit, savings_target_percent, advisory_message) ==
  [emi_green_limit |-> emi_green_limit,
   emi_yellow_limit |-> emi_yellow_limit,
   high_interest_rate_limit |-> high_interest_rate_limit,
   savings_target_percent |-> savings_target_percent,
   advisory_message |-> advisory_message]

HealthControlsPosts ==
  {ControlsPost(Blank, emi_yellow_limit, Blank, Bad, "") :
     emi_yellow_limit \in {Num(10000), Num(5000), Num(2000)}}

NextHealth ==
  \/ \E later \in ClockDates : Tick(later)
  \/ \E user \in Users, monthly_salary \in HealthIncomeInputs :
       add_income(user, monthly_salary, Num(0))
  \/ \E user \in Users, monthly_salary \in HealthIncomeInputs :
       edit_income(user, monthly_salary, Num(0))
  \/ \E user \in Users, form \in HealthLoanForms :
       Len(loans) < MaxLoans /\ add_loan(user, form)
  \/ \E user \in Users, loan_id \in 1..MaxLoans, form \in HealthLoanForms :
       edit_loan(user, loan_id, form)
  \/ \E user \in Users, loan_id \in 1..MaxLoans : delete_loan(user, loan_id)
  \/ \E post \in HealthControlsPosts : admin_system_controls(post)

SpecHealth == Init /\ [][NextHealth]_vars

LoanIds == 1..Len(loans)

(* the user's loans with start_date <= today <= end_date *)
ActiveLoanIds(user) ==
  {i \in LoanIds : /\ loans[i].user = user
                   /\ DateLE(loans[i].start_date, today)
                   /\ DateLE(today, loans[i].end_date)}

HasNoIncome(user) ==
  IsNone(incomes[user]) \/ total_income(Val(incomes[user])) = 0

(* C3: with no income and an active loan of positive EMI the snapshot      *)
(* reports income 0, both ratios 100.0 and both classes 'red', under every *)
(* accepted threshold configuration; with no income and no obligation both *)
(* ratios are 0.0.                                                         *)
C3_NoIncomeWithDebtIsRed ==
  \A user \in Users :
    LET snapshot == _financial_snapshot(user, settings)
    IN /\ (HasNoIncome(user) /\ \E i \in ActiveLoanIds(user) : loans[i].monthly_emi > 0)
            => /\ snapshot.total_income = 0
               /\ snapshot.emi_ratio = 10000
               /\ snapshot.overall_burden_ratio = 10000
               /\ snapshot.health_class = "red"
               /\ snapshot.overall_health_class = "red"
       /\ (HasNoIncome(user) /\ snapshot.total_monthly_obligation = 0)
            => /\ snapshot.emi_ratio = 0
               /\ snapshot.overall_burden_ratio = 0

(* the class that the ratio and the two limits determine *)
ClaimedZone(ratio, class) ==
  /\ class \in {"green", "yellow", "red"}
  /\ class = "green" <=> ratio < settings.emi_green_limit
  /\ class = "yellow" <=> (settings.emi_green_limit <= ratio
                           /\ ratio <= settings.emi_yellow_limit)
  /\ class = "red" <=> ratio > settings.emi_yellow_limit

(* C4: health_class (from emi_ratio) and overall_health_class (from        *)
(* overall_burden_ratio) are 'green' iff ratio < green limit, 'yellow' iff *)
(* green limit <= ratio <= yellow limit, 'red' iff ratio > yellow limit.   *)
C4_ZonesTotalAndExclusive ==
  \A user \in Users :
    LET snapshot == _financial_snapshot(user, settings)
    IN /\ ClaimedZone(snapshot.emi_ratio, snapshot.health_class)
       /\ ClaimedZone(snapshot.overall_burden_ratio, snapshot.overall_health_class)

(* with the limits 30/50: one user at exactly 50.0 (yellow), the other at  *)
(* 50.01 (red)                                                             *)
C4_Witness ==
  /\ settings.emi_green_limit = 3000
  /\ settings.emi_yellow_limit = 5000
  /\ \E user \in Users, other \in Users :
       /\ _financial_snapshot(user, settings).emi_ratio = 5000
       /\ _financial_snapshot(user, settings).health_class = "yellow"
       /\ _financial_snapshot(other, settings).emi_ratio = 5001
       /\ _financial_snapshot(other, settings).health_class = "red"

(* with the limits 30/50 a ratio of exactly 30.0 is yellow *)
C4_GreenBoundaryReached ==
  \E user \in Users :
    /\ settings.emi_green_limit = 3000
    /\ _financial_snapshot(user, settings).emi_ratio = 3000
    /\ _financial_snapshot(user, settings).health_class = "yellow"
(***************************************************************************)
(* SpecObligation: loans and card entries side by side                     *)
(***************************************************************************)
ObligationLoanForms ==
  {LoanForm(Num(6000), Num(3000), Num(0), Num(2), Num(FirstDay)),
   LoanForm(Num(6000), Num(2000), Num(0), Num(2), Num(Date(2025, 4, 1)))}

ObligationCardForms == {CardForm("Gold", Num(5000), Num(1200), Num(100))}

ObligationEntryForms ==
  [action : {"save_entry"},
   entry_id : {0},
   entry_type : {TYPE_EMI, TYPE_MONTHLY_SPEND},
   entry_month : {Num(Date(2025, 1, 1))},
   amount : {Num(1200)},
   tenure_months : {Num(2)},
   description : {""}]

NextObligation ==
  \/ \E later \in ClockDates : Tick(later)
  \/ \E user \in Users, form \in ObligationLoanForms :
       Len(loans) < MaxLoans /\ add_loan(user, form)
  \/ \E user \in Users, loan_id \in 1..MaxLoans, form \in ObligationLoanForms :
       edit_loan(user, loan_id, form)
  \/ \E user \in Users, card_form \in ObligationCardForms :
       credit_card_add_view(user, card_form)
  \/ \E user \in Users, card_id \in 1..MaxCards, entry_form \in ObligationEntryForms :
       credit_card_spend_view(user, card_id, entry_form)

SpecObligation == Init /\ [][NextObligation]_vars

LoanEmi == [i \in LoanIds |-> loans[i].monthly_emi]

(* C5: credit_card_due_estimate = credit_card_total_emi +                  *)
(* credit_card_total_spend, total_monthly_obligation = total_emi +         *)
(* credit_card_due_estimate, and total_emi is the sum of monthly_emi over  *)
(* exactly the active loans (money compared in paise).                     *)
C5_SnapshotIsAdditive ==
  \A user \in Users :
    LET snapshot == _financial_snapshot(user, settings)
    IN /\ snapshot.credit_card_due_estimate
            = snapshot.credit_card_total_emi + snapshot.credit_card_total_spend
       /\ snapshot.total_monthly_obligation
            = 100 * snapshot.total_emi + snapshot.credit_card_due_estimate
       /\ snapshot.total_emi = SumOver(ActiveLoanIds(user), LoanEmi)

(* a user with an active and an upcoming loan, an active card EMI and a    *)
(* current-month spend                                                     *)
C5_Witness ==
  \E user \in Users :
    LET snapshot == _financial_snapshot(user, settings)
    IN /\ snapshot.active_loan_count = 1
       /\ snapshot.upcoming_loan_count = 1
       /\ snapshot.total_emi = 3000
       /\ snapshot.credit_card_total_emi > 0
       /\ snapshot.credit_card_total_spend > 0
       /\ snapshot.total_monthly_obligation
            = 300000 + snapshot.credit_card_total_emi + snapshot.credit_card_total_spend
(***************************************************************************)
(* SpecLoans: the loan pages and the clock                                 *)
(***************************************************************************)
LoansLoanForms ==
  {LoanForm(Num(1200), Num(400), Num(0), Num(3), Num(FirstDay)),
   LoanForm(Num(1200), Num(50), Num(10000), Num(3), Num(FirstDay)),
   LoanForm(Num(1200), Num(400), Num(10000), Num(3), Num(FirstDay)),
   LoanForm(Num(1200), Num(400), Num(0), Num(2), Num(Date(2025, 4, 1))),
   LoanForm(Num(1200), Num(700), Num(0), Num(2), Num(Date(2025, 1, 31))),
   LoanForm(Num(1200), Num(400), Num(0), Num(3), Num(Date(2025, 1, 1)))}

NextLoans ==
  \/ \E later \in ClockDates : Tick(later)
  \/ \E user \in Users, form \in LoansLoanForms :
       Len(loans) < MaxLoans /\ add_loan(user, form)
  \/ \E user \in Users, loan_id \in 1..MaxLoans, form \in LoansLoanForms :
       edit_loan(user, loan_id, form)
  \/ \E user \in Users, loan_id \in 1..MaxLoans : delete_loan(user, loan_id)

SpecLoans == Init /\ [][NextLoans]_vars

(* the first day of the month k months after the month of dt *)
MonthAfter(dt, k) ==
  LET ordinal == dt.y * 12 + (dt.m - 1) + k
  IN Date(ordinal \div 12, (ordinal % 12) + 1, 1)

(* the user's loans that are active or upcoming: today <= end_date *)
PlanningLoanIds(user) ==
  {i \in LoanIds : loans[i].user = user /\ DateLE(today, loans[i].end_date)}

(* the months from the month of today to the latest end month of the ids *)
MonthsToLatestEnd(ids) ==
  LET latest == CHOOSE i \in ids :
                  \A j \in ids : DateLE(loans[j].end_date, loans[i].end_date)
  IN _month_gap(_month_start_value(today), _month_start_value(loans[latest].end_date))

(* C6: with an active or upcoming loan the loan_timeline has one point per *)
(* month from the month of today through the month of the latest end_date  *)
(* among those loans, labels and values of equal length, the first label   *)
(* being the current month as 'Mon YYYY', and every value the sum of       *)
(* remaining_balance_at_month over those loans, >= 0; with no such loan it *)
(* is the single point (current month, 0).                                 *)
C6_TimelineIsMonthwise ==
  \A user \in Users :
    LET timeline == _build_chart_payload(_financial_snapshot(user, settings)).loan_timeline
        planning == PlanningLoanIds(user)
    IN IF planning = {}
         THEN /\ timeline.labels = <<<<MonthAbbr[today.m], today.y>>>>
              /\ timeline.values = <<0>>
         ELSE /\ Len(timeline.labels) = MonthsToLatestEnd(planning) + 1
              /\ Len(timeline.values) = Len(timeline.labels)
              /\ Len(timeline.labels) >= 1
              /\ timeline.labels[1] = <<MonthAbbr[today.m], today.y>>
              /\ \A k \in 1..Len(timeline.labels) :
                   LET month == MonthAfter(today, k - 1)
                   IN /\ timeline.labels[k] = <<MonthAbbr[month.m], month.y>>
                      /\ timeline.values[k] =
                           SumOver(planning,
                                   [i \in LoanIds |->
                                      _loan_remaining_balance_at_month(loans[i], month)])
                      /\ timeline.values[k] >= 0

(* a user with an active and an upcoming loan and a closed one left out:   *)
(* at least three points, the first one positive                           *)
C6_Witness ==
  \E user \in Users :
    LET snapshot == _financial_snapshot(user, settings)
        timeline == _build_chart_payload(snapshot).loan_timeline
    IN /\ snapshot.active_loan_count = 1
       /\ snapshot.upcoming_loan_count = 1
       /\ Len(timeline.values) >= 3
       /\ timeline.values[1] > 0
       /\ timeline.values[Len(timeline.values)] > 0

(* a user whose loans are all closed gets the single point of value 0 *)
C6_AllClosedReached ==
  \E user \in Users :
    /\ _financial_snapshot(user, settings).closed_loan_count > 0
    /\ PlanningLoanIds(user) = {}
(* the first-of-month dates the balances are compared on *)
FirstMonth == Date(2024, 11, 1)

MonthCount == 10

MonthRange == {MonthAfter(FirstMonth, k) : k \in 0..(MonthCount - 1)}

Balance(i, month) == _loan_remaining_balance_at_month(loans[i], month)

(* C7 as stated: for a fixed loan the remaining balance is non-increasing  *)
(* in the month, over all first-of-month dates m1 <= m2.                   *)
C7_BalanceNonIncreasing ==
  \A i \in LoanIds : \A m1 \in MonthRange, m2 \in MonthRange :
    DateLE(m1, m2) => Balance(i, m2) <= Balance(i, m1)

(* the EMI covers one month's interest on the principal *)
EmiCoversInterest(loan) == loan.monthly_emi * 120000 >= loan.principal * loan.interest_rate

(* C7 amended: the balance is 0 before the start month, and for a loan     *)
(* whose monthly_emi is at least one month's interest on the principal it  *)
(* is non-increasing over the months m1 <= m2 at or after the start month. *)
C7_BalanceNonIncreasingFromStart ==
  \A i \in LoanIds : \A m1 \in MonthRange :
    /\ DateLT(m1, _month_start_value(loans[i].start_date)) => Balance(i, m1) = 0
    /\ \A m2 \in MonthRange :
         (/\ EmiCoversInterest(loans[i])
          /\ DateLE(_month_start_value(loans[i].start_date), m1)
          /\ DateLE(m1, m2))
           => Balance(i, m2) <= Balance(i, m1)

(* a loan at a positive rate whose balance falls month after month: from   *)
(* the principal, to less, to less again, to 0 after the end               *)
C7_Witness ==
  \E i \in LoanIds :
    LET start_month == _month_start_value(loans[i].start_date)
    IN /\ loans[i].interest_rate > 0
       /\ EmiCoversInterest(loans[i])
       /\ Balance(i, start_month) = 100 * loans[i].principal
       /\ Balance(i, MonthAfter(start_month, 1)) < Balance(i, start_month)
       /\ Balance(i, MonthAfter(start_month, 2)) < Balance(i, MonthAfter(start_month, 1))
       /\ Balance(i, MonthAfter(start_month, 2)) > 0
       /\ Balance(i, MonthAfter(start_month, 3)) = 0

MaxPeriod == 14

PeriodStartDates ==
  {Date(y, m, d) : y \in {2023, 2024}, m \in 1..12, d \in {1, 15, 28, 29, 30, 31}}
    \cap {dt \in [y : {2023, 2024}, m : 1..12, d : 1..31] : dt.d <= monthrange(dt.y, dt.m)}

PeriodEndDates ==
  {Date(2022, 12, 31), Date(2023, 1, 1), Date(2024, 2, 29), Date(2025, 6, 15)}

InitPeriod ==
  /\ EmptyStore
  /\ probe \in {[fn |-> "period", stage |-> "drawn", start_date |-> s,
                 period |-> p, end_date |-> s, derived |-> FALSE, months |-> 0]
                  : s \in PeriodStartDates, p \in 1..MaxPeriod}

(* end_date = _shift_date_by_months(start_date, period - 1) *)
DeriveEndDate ==
  /\ probe.fn = "period" /\ probe.stage = "drawn"
  /\ probe' = [probe EXCEPT !.stage = "dated", !.derived = TRUE,
                 !.end_date = _shift_date_by_months(probe.start_date,
                                                    probe.period - 1)]
  /\ UNCHANGED <<today, incomes, loans, budgets, cards, entries, settings, audit>>

(* an end date that was typed, not derived *)
PickEndDate(end_date) ==
  /\ probe.fn = "period" /\ probe.stage = "drawn"
  /\ probe' = [probe EXCEPT !.stage = "dated", !.end_date = end_date]
  /\ UNCHANGED <<today, incomes, loans, budgets, cards, entries, settings, audit>>

(* months = _loan_period_months(start_date, end_date) *)
MeasurePeriod ==
  /\ probe.fn = "period" /\ probe.stage = "dated"
  /\ probe' = [probe EXCEPT !.stage = "measured",
                 !.months = _loan_period_months(probe.start_date, probe.end_date)]
  /\ UNCHANGED <<today, incomes, loans, budgets, cards, entries, settings, audit>>

NextPeriod ==
  \/ DeriveEndDate
  \/ \E end_date \in PeriodEndDates : PickEndDate(end_date)
  \/ MeasurePeriod

SpecPeriod == InitPeriod /\ [][NextPeriod]_vars

Measured == probe.fn = "period" /\ probe.stage = "measured"

(* C9 as stated: _loan_period_months is at least 1 for all dates, and the  *)
(* end date derived from a period p >= 1 measures back to the same p, for  *)
(* every start date, days 29-31 included.                                  *)
C9_PeriodRoundTrips ==
  Measured =>
    /\ probe.months >= 1
    /\ probe.derived => probe.months = probe.period

(* the part of C9 that the code keeps: at least 1 for all dates, and the   *)
(* round trip whenever the start day did not have to be clamped            *)
C9_PeriodRoundTripsUnclamped ==
  Measured =>
    /\ probe.months >= 1
    /\ (probe.derived /\ probe.end_date.d = probe.start_date.d)
         => probe.months = probe.period

(* the clamped case: a period of 2 from January 31 ends on February 28 or  *)
(* 29 and measures as 1                                                    *)
C9_ClampedReached ==
  /\ Measured /\ probe.derived
  /\ probe.start_date.m = 1 /\ probe.start_date.d = 31 /\ probe.period = 2
  /\ probe.end_date.m = 2
  /\ probe.months = 1

(***************************************************************************)
(* SpecRate: _calculate_monthly_emi, _emi_from_rate and                    *)
(* _infer_monthly_rate on their own.  The probe holds a principal, a       *)
(* monthly rate and a tenure; an EMI is computed from them, rounded to     *)
(* whole rupees or not, and the rate is inferred back from that EMI.       *)
(***************************************************************************)
RatePrincipals == {1, 100, 120}

RateInputs == {<<0, 1>>, <<1, 20>>, <<1, 12>>, <<1, 4>>, <<1, 2>>, <<3, 4>>}

RateTenures == {1, 2, 3}

InitRate ==
  /\ EmptyStore
  /\ probe \in {[fn |-> "rate", stage |-> "drawn", principal |-> p,
                 monthly_rate |-> r, tenure_months |-> n, rounded |-> FALSE,
                 monthly_emi |-> None, inferred_rate |-> None]
                  : p \in RatePrincipals, r \in RateInputs, n \in RateTenures}

(* monthly_emi = _calculate_monthly_emi(principal, monthly_rate, tenure_months) *)
ApplyCalculateMonthlyEmi ==
  /\ probe.fn = "rate" /\ probe.stage = "drawn"
  /\ LET emi == _calculate_monthly_emi(probe.principal, probe.monthly_rate,
                                       probe.tenure_months)
     IN probe' = [probe EXCEPT !.stage = "emi", !.rounded = TRUE,
                    !.monthly_emi = IF IsNone(emi) THEN None
                                    ELSE Some(RInt(Val(emi)))]
  /\ UNCHANGED <<today, incomes, loans, budgets, cards, entries, settings, audit>>

(* monthly_emi = _emi_from_rate(principal, monthly_rate, tenure_months) *)
ApplyEmiFromRate ==
  /\ probe.fn = "rate" /\ probe.stage = "drawn"
  /\ probe' = [probe EXCEPT !.stage = "emi",
                 !.monthly_emi = _emi_from_rate(probe.principal, probe.monthly_rate,
                                                probe.tenure_months)]
  /\ UNCHANGED <<today, incomes, loans, budgets, cards, entries, settings, audit>>

(* inferred_rate = _infer_monthly_rate(principal, monthly_emi, tenure_months) *)
ApplyInferMonthlyRate ==
  /\ probe.fn = "rate" /\ probe.stage = "emi"
  /\ ~IsNone(probe.monthly_emi)
  /\ probe' = [probe EXCEPT !.stage = "inferred",
                 !.inferred_rate = _infer_monthly_rate(probe.principal,
                                                       Val(probe.monthly_emi),
                                                       probe.tenure_months)]
  /\ UNCHANGED <<today, incomes, loans, budgets, cards, entries, settings, audit>>

NextRate ==
  \/ ApplyCalculateMonthlyEmi
  \/ ApplyEmiFromRate
  \/ ApplyInferMonthlyRate

SpecRate == InitRate /\ [][NextRate]_vars

Inferred == probe.fn = "rate" /\ probe.stage = "inferred"

(* abs(a - b) <= 1e-4 for the rationals a and b *)
WithinTolerance(a, b) ==
  LET diff == RSub(a, b)
  IN Abs(diff[1]) <= diff[2] \div 10000

InferredWithinTolerance ==
  /\ ~IsNone(probe.inferred_rate)
  /\ WithinTolerance(Val(probe.inferred_rate), probe.monthly_rate)

C10_RoundingReached ==
  /\ Inferred /\ probe.rounded
  /\ probe.principal = 1 /\ probe.monthly_rate = <<1, 20>> /\ probe.tenure_months = 1
  /\ probe.monthly_emi = Some(<<1, 1>>)
  /\ probe.inferred_rate = Some(<<0, 1>>)

(***************************************************************************)
(* IEEE doubles for the rate-0 path of the amortization: a magnitude is a  *)
(* big-endian sequence of FixIntegerBits + FixFractionBits bits (the bit   *)
(* at index FixIntegerBits is the units bit), a double is a sign and a     *)
(* magnitude with at most DoubleBits significant bits.  Every result is    *)
(* computed exactly and then rounded to nearest, ties to even.             *)
(***************************************************************************)
DoubleBits == 53

FixIntegerBits == 8

FixFractionBits == 60

FixWidth == FixIntegerBits + FixFractionBits

(* the k low bits of i, most significant first *)
IntToBits(i, k) == [j \in 1..k |-> (i \div Pow2(k - j)) % 2]

(* 2^k mod n *)
RECURSIVE Pow2Mod(_, _)
Pow2Mod(k, n) ==
  IF k = 0 THEN 1 % n
  ELSE LET half == Pow2Mod(k \div 2, n)
           square == (half * half) % n
       IN IF k % 2 = 0 THEN square ELSE (2 * square) % n

(* what is left of r / n after k fraction bits, for 0 <= r < n *)
DivRem(r, n, k) == (r * Pow2Mod(k, n)) % n

(* the first k fraction bits of r / n, for 0 <= r < n *)
DivBits(r, n, k) == [j \in 1..k |-> (2 * DivRem(r, n, j - 1)) \div n]

FixZero == [i \in 1..FixWidth |-> 0]

(* index of the leading 1, 0 for zero *)
Lead(bits) ==
  IF \A i \in 1..FixWidth : bits[i] = 0 THEN 0
  ELSE CHOOSE i \in 1..FixWidth :
         bits[i] = 1 /\ \A j \in 1..(i - 1) : bits[j] = 0

(* bits + 2^(FixWidth - pos): the carry runs through the 1s left of pos *)
FixIncrementAt(bits, pos) ==
  [j \in 1..FixWidth |->
     IF j <= pos /\ \A k \in (j + 1)..pos : bits[k] = 1
       THEN 1 - bits[j] ELSE bits[j]]

(* the bits right of index i of a are a smaller number than those of b *)
SuffixLess(a, b, i) ==
  \E k \in (i + 1)..FixWidth :
    a[k] < b[k] /\ \A j \in (i + 1)..(k - 1) : a[j] = b[j]

(* a - b for a >= b: a borrow reaches index i when the suffix of a is less *)
FixSub(a, b) ==
  [i \in 1..FixWidth |->
     (2 + a[i] - b[i] - (IF SuffixLess(a, b, i) THEN 1 ELSE 0)) % 2]

(* a carry reaches index i when some pair of 1s right of it is followed,   *)
(* up to i, by pairs that pass a carry on                                  *)
CarryInto(a, b, i) ==
  \E k \in (i + 1)..FixWidth :
    a[k] + b[k] = 2 /\ \A j \in (i + 1)..(k - 1) : a[j] + b[j] = 1

FixAdd(a, b) ==
  [i \in 1..FixWidth |->
     (a[i] + b[i] + (IF CarryInto(a, b, i) THEN 1 ELSE 0)) % 2]

FixLess(a, b) == SuffixLess(a, b, 0)

(* round to DoubleBits significant bits, ties to even; `sticky` says that  *)
(* the exact value has more below the last bit of `bits`                   *)
DoubleRoundAt(bits, sticky, cut) ==
  IF cut > FixWidth THEN bits
  ELSE LET truncated == [i \in 1..FixWidth |-> IF i < cut THEN bits[i] ELSE 0]
       IN IF /\ bits[cut] = 1
             /\ \/ sticky
                \/ \E i \in (cut + 1)..FixWidth : bits[i] = 1
                \/ bits[cut - 1] = 1
            THEN FixIncrementAt(truncated, cut - 1)
            ELSE truncated

DoubleRound(bits, sticky) ==
  IF bits = FixZero THEN bits
  ELSE DoubleRoundAt(bits, sticky, Lead(bits) + DoubleBits)

(* float(i) *)
DoubleFromInt(i) ==
  [neg |-> FALSE,
   mag |-> IntToBits(i, FixIntegerBits) \o [k \in 1..FixFractionBits |-> 0]]

(* principal / tenure_months on doubles *)
DoubleDivide(principal, tenure_months) ==
  [neg |-> FALSE,
   mag |-> DoubleRound(IntToBits(principal \div tenure_months, FixIntegerBits)
                         \o DivBits(principal % tenure_months, tenure_months,
                                    FixFractionBits),
                       DivRem(principal % tenure_months, tenure_months,
                              FixFractionBits) # 0)]

(* x - y on doubles, for y >= 0 *)
DoubleSubtract(x, y) ==
  IF x.neg
    THEN [neg |-> TRUE, mag |-> DoubleRound(FixAdd(x.mag, y.mag), FALSE)]
  ELSE IF FixLess(x.mag, y.mag)
    THEN [neg |-> TRUE, mag |-> DoubleRound(FixSub(y.mag, x.mag), FALSE)]
  ELSE [neg |-> FALSE, mag |-> DoubleRound(FixSub(x.mag, y.mag), FALSE)]

(***************************************************************************)
(* SpecAmortize: the EMI of _emi_from_rate paid month after month.  The    *)
(* probe holds a principal, a monthly rate and a tenure; the EMI is        *)
(* computed once, then each step adds a month's interest to the balance    *)
(* and takes the EMI off it.  `balance` is the balance in exact            *)
(* arithmetic; at rate 0, where the EMI is principal / tenure_months and   *)
(* the interest is 0.0, `double_balance` is the balance the doubles give.  *)
(***************************************************************************)
InitAmortize ==
  /\ EmptyStore
  /\ probe \in {[fn |-> "amortize", stage |-> "drawn", principal |-> p,
                 monthly_rate |-> r, tenure_months |-> n, monthly_emi |-> None,
                 balance |-> RInt(p), steps |-> 0,
                 double_emi |-> None,
                 double_balance |-> IF r[1] = 0 THEN Some(DoubleFromInt(p)) ELSE None]
                  : p \in RatePrincipals, r \in RateInputs, n \in RateTenures}

(* monthly_emi = _emi_from_rate(principal, monthly_rate, tenure_months) *)
AmortizeEmi ==
  /\ probe.fn = "amortize" /\ probe.stage = "drawn"
  /\ probe' = [probe EXCEPT !.stage = "paying",
                 !.monthly_emi = _emi_from_rate(probe.principal, probe.monthly_rate,
                                                probe.tenure_months),
                 !.double_emi =
                    IF probe.monthly_rate[1] = 0
                      THEN Some(DoubleDivide(probe.principal, probe.tenure_months))
                      ELSE None]
  /\ UNCHANGED <<today, incomes, loans, budgets, cards, entries, settings, audit>>

(* balance += balance * monthly_rate; balance -= monthly_emi *)
AmortizeStep ==
  /\ probe.fn = "amortize" /\ probe.stage = "paying"
  /\ ~IsNone(probe.monthly_emi)
  /\ probe.steps < probe.tenure_months
  /\ LET grown == RAdd(probe.balance, RMul(probe.balance, probe.monthly_rate))
     IN probe' = [probe EXCEPT
                    !.balance = RSub(grown, Val(probe.monthly_emi)),
                    !.double_balance =
                       IF IsNone(probe.double_emi) THEN None
                       ELSE Some(DoubleSubtract(Val(probe.double_balance),
                                                Val(probe.double_emi))),
                    !.steps = @ + 1]
  /\ UNCHANGED <<today, incomes, loans, budgets, cards, entries, settings, audit>>

NextAmortize ==
  \/ AmortizeEmi
  \/ AmortizeStep

SpecAmortize == InitAmortize /\ [][NextAmortize]_vars

Amortized ==
  /\ probe.fn = "amortize" /\ probe.stage = "paying"
  /\ probe.steps = probe.tenure_months

(* abs(x) < 2^-30 for the double x *)
DoubleNegligible(x) ==
  \A i \in 1..(FixIntegerBits + 30) : x.mag[i] = 0

C11_DoubleResidueReached ==
  /\ Amortized
  /\ probe.principal = 1 /\ probe.monthly_rate[1] = 0 /\ probe.tenure_months = 3
  /\ ~Val(probe.double_balance).neg
  /\ Lead(Val(probe.double_balance).mag) = FixIntegerBits + 53

(* principal 100 at rate 0 over 3 months ends at -2^-46 on doubles *)
C11_NegativeResidueReached ==
  /\ Amortized
  /\ probe.principal = 100 /\ probe.monthly_rate[1] = 0 /\ probe.tenure_months = 3
  /\ Val(probe.double_balance).neg
  /\ Lead(Val(probe.double_balance).mag) = FixIntegerBits + 46

(***************************************************************************)
(* C12, under SpecLoans: the breakdown of each user's loans on `today`     *)
(***************************************************************************)
(* how many members of the list are the record `loan` *)
CountIn(loan_list, loan) == Cardinality({k \in 1..Len(loan_list) : loan_list[k] = loan})

(* the row the claim describes for a loan *)
ClaimedRow(row, reference_date) ==
  LET loan == row.loan
      total == _loan_period_months(loan.start_date, loan.end_date)
  IN /\ row.total_months = total
     /\ row.status \in {"active", "upcoming", "closed"}
     /\ row.status = "upcoming" <=> DateLT(reference_date, loan.start_date)
     /\ row.status = "closed" <=> DateLT(loan.end_date, reference_date)
     /\ row.status = "upcoming" => (row.elapsed_months = 0 /\ row.remaining_months = total)
     /\ row.status = "closed" => (row.elapsed_months = total /\ row.remaining_months = 0)
     /\ row.status = "active" =>
          /\ row.elapsed_months = Min(total, _elapsed_months(loan.start_date, reference_date))
          /\ row.remaining_months = Max(1, total - row.elapsed_months)

(* C12: _loan_runtime_breakdown puts every loan in exactly one of          *)
(* active/upcoming/closed and emits one row per loan: upcoming iff         *)
(* reference_date < start_date (elapsed 0, remaining total), closed iff    *)
(* reference_date > end_date (elapsed total, remaining 0), active          *)
(* otherwise (elapsed min(total, elapsed_months), remaining max(1, total - *)
(* elapsed)), with total = _loan_period_months(start_date, end_date).      *)
C12_BreakdownPartitionsLoans ==
  \A user \in Users :
    LET loan_list == UserLoans(user)
        breakdown == _loan_runtime_breakdown(loan_list, today)
        rows == breakdown.runtime_rows
    IN /\ Len(rows) = Len(loan_list)
       /\ Len(breakdown.active_loans) + Len(breakdown.upcoming_loans)
            + Len(breakdown.closed_loans) = Len(loan_list)
       /\ \A i \in 1..Len(loan_list) :
            /\ rows[i].loan = loan_list[i]
            /\ ClaimedRow(rows[i], today)
            /\ CountIn(breakdown.active_loans, loan_list[i])
                 = IF rows[i].status = "active" THEN CountIn(loan_list, loan_list[i]) ELSE 0
            /\ CountIn(breakdown.upcoming_loans, loan_list[i])
                 = IF rows[i].status = "upcoming" THEN CountIn(loan_list, loan_list[i]) ELSE 0
            /\ CountIn(breakdown.closed_loans, loan_list[i])
                 = IF rows[i].status = "closed" THEN CountIn(loan_list, loan_list[i]) ELSE 0

(* a user with a closed loan and an upcoming loan on the same day *)
C12_Witness ==
  \E user \in Users :
    LET breakdown == _loan_runtime_breakdown(UserLoans(user), today)
    IN /\ Len(breakdown.closed_loans) = 1
       /\ Len(breakdown.upcoming_loans) = 1
       /\ breakdown.runtime_rows[1].status # breakdown.runtime_rows[2].status

(* an active loan part of the way through: elapsed 1 or more, remaining    *)
(* less than total                                                         *)
C12_ActiveReached ==
  \E user \in Users :
    LET breakdown == _loan_runtime_breakdown(UserLoans(user), today)
    IN /\ Len(breakdown.active_loans) = 1
       /\ \E i \in 1..Len(breakdown.runtime_rows) :
            /\ breakdown.runtime_rows[i].status = "active"
            /\ breakdown.runtime_rows[i].elapsed_months >= 1
            /\ breakdown.runtime_rows[i].remaining_months
                 < breakdown.runtime_rows[i].total_months

(***************************************************************************)
(* SpecRisk: one user's income, budget and loans, and the clock; the       *)
(* admin pages read the user's snapshot and classify it with               *)
(* _risk_profile.                                                          *)
(***************************************************************************)
MaxRiskLoans == 4

RiskUser == "u1"

RiskLoanForms ==
  {LoanForm(Num(1200), Num(1), Num(0), Num(1), Num(FirstDay)),
   LoanForm(Num(1200), Num(200), Num(0), Num(1), Num(FirstDay)),
   LoanForm(Num(1200), Num(400), Num(1800), Num(1), Num(FirstDay)),
   LoanForm(Num(1200), Num(1), Num(1801), Num(1), Num(FirstDay))}

RiskIncomeInputs == {Num(0), Num(1000), Num(1001)}

BudgetPost(grocery) ==
  [method |-> "POST", grocery |-> grocery, rent |-> Num(0), transport |-> Num(0),
   entertainment |-> Num(0)]

RiskBudgetPosts == {BudgetPost(Num(750)), BudgetPost(Num(751))}

NextRisk ==
  \/ \E later \in ClockDates : Tick(later)
  \/ \E monthly_salary \in RiskIncomeInputs : add_income(RiskUser, monthly_salary, Num(0))
  \/ \E post \in RiskBudgetPosts : budget_view(RiskUser, post)
  \/ \E form \in RiskLoanForms :
       Len(loans) < MaxRiskLoans /\ add_loan(RiskUser, form)

SpecRisk == Init /\ [][NextRisk]_vars

RiskSnapshot == _financial_snapshot(RiskUser, settings)

RiskLevel == _risk_profile(RiskSnapshot).level

DebtLoadRatio == Max(RiskSnapshot.emi_ratio, RiskSnapshot.overall_burden_ratio)

(* C13 as stated: the level is 'high' if and only if debt_load_ratio > 60, *)
(* or the user has more than 3 active loans, or some loan of the user has  *)
(* interest_rate > 18; closed and upcoming loans do not count toward the   *)
(* 'more than 3 active loans' condition.                                   *)
C13_HighRiskIff ==
  RiskLevel = "high" <=>
    \/ DebtLoadRatio > 6000
    \/ Cardinality(ActiveLoanIds(RiskUser)) > 3
    \/ \E i \in LoanIds : loans[i].user = RiskUser /\ loans[i].interest_rate > 1800

(* C13 read with 'some loan' as some active loan *)
C13_HighRiskIffActiveRate ==
  RiskLevel = "high" <=>
    \/ DebtLoadRatio > 6000
    \/ Cardinality(ActiveLoanIds(RiskUser)) > 3
    \/ \E i \in ActiveLoanIds(RiskUser) : loans[i].interest_rate > 1800

(* four closed loans at 18% or less, no active loan, no debt load: the     *)
(* level is 'high' for 'More than 3 active loans.'                         *)
C13_ClosedLoansCountReached ==
  /\ Len(loans) = 4
  /\ ActiveLoanIds(RiskUser) = {}
  /\ \A i \in LoanIds : loans[i].interest_rate <= 1800
  /\ DebtLoadRatio = 0
  /\ RiskLevel = "high"
  /\ _risk_profile(RiskSnapshot).reasons = <<"More than 3 active loans.">>

(* C14 as stated: the level is one of high/medium/low; when it is not      *)
(* 'high' it is 'medium' if and only if 40 <= debt_load_ratio <= 60 or     *)
(* budget_total > 0.75 * total_income, and 'low' otherwise.                *)
C14_MediumIff ==
  /\ RiskLevel \in {"high", "medium", "low"}
  /\ RiskLevel # "high" =>
       (RiskLevel = "medium" <=>
          \/ (4000 <= DebtLoadRatio /\ DebtLoadRatio <= 6000)
          \/ 4 * RiskSnapshot.total_budget_expense > 3 * RiskSnapshot.total_income)

(* C14 amended: the level is one of high/medium/low; when it is not 'high' *)
(* it is 'medium' if and only if 40 <= debt_load_ratio <= 60, or           *)
(* total_income > 0 and budget_total > 0.75 * total_income, and 'low'      *)
(* otherwise.                                                              *)
C14_MediumIffWithIncome ==
  /\ RiskLevel \in {"high", "medium", "low"}
  /\ RiskLevel # "high" =>
       /\ RiskLevel = "medium" <=>
            \/ (4000 <= DebtLoadRatio /\ DebtLoadRatio <= 6000)
            \/ /\ RiskSnapshot.total_income > 0
               /\ 4 * RiskSnapshot.total_budget_expense > 3 * RiskSnapshot.total_income
       /\ RiskLevel = "low" <=>
            /\ ~(4000 <= DebtLoadRatio /\ DebtLoadRatio <= 6000)
            /\ ~(/\ RiskSnapshot.total_income > 0
                 /\ 4 * RiskSnapshot.total_budget_expense > 3 * RiskSnapshot.total_income)

(* 'medium' for the budget alone: income 1000, budget 751, debt load       *)
(* under 40                                                                *)
C14_Witness ==
  /\ RiskLevel = "medium"
  /\ RiskSnapshot.total_income = 1000
  /\ RiskSnapshot.total_budget_expense = 751
  /\ DebtLoadRatio < 4000
  /\ ActiveLoanIds(RiskUser) # {}

(* the boundaries of the debt load: 'medium' at exactly 40 and at exactly  *)
(* 60, 'low' just under 40, 'high' just over 60                            *)
C14_MediumAtFortyReached == RiskLevel = "medium" /\ DebtLoadRatio = 4000

C14_MediumAtSixtyReached == RiskLevel = "medium" /\ DebtLoadRatio = 6000

C14_LowUnderFortyReached ==
  RiskLevel = "low" /\ DebtLoadRatio > 3900 /\ DebtLoadRatio < 4000

C14_HighOverSixtyReached ==
  /\ RiskLevel = "high"
  /\ DebtLoadRatio > 6000 /\ DebtLoadRatio < 6100
  /\ Cardinality(ActiveLoanIds(RiskUser)) <= 3
  /\ \A i \in LoanIds : loans[i].interest_rate <= 1800

(* a budget and no income: 'low' *)
C14_NoIncomeBudgetReached ==
  /\ RiskLevel = "low"
  /\ RiskSnapshot.total_income = 0
  /\ RiskSnapshot.total_budget_expense > 0

(***************************************************************************)
(* SpecCardEmi: _card_emi_remaining_balance month after month.  The probe  *)
(* holds the amount, the card's rate and the tenure of an EMI entry, all   *)
(* inside the ranges the entry and card forms accept (amount >= 1, tenure  *)
(* 1..240, rate 0..100 percent); each step is one more elapsed month.      *)
(* `remaining` is the reported balance in paise and `previous` the one     *)
(* reported a month earlier.                                               *)
(***************************************************************************)
CardEmiAmounts == {1, 2, 100, 12000}

(* with interest: tenures and amounts whose growth factors fit TLC's integers *)
MaxInterestTenure == 3

CardEmiInterestAmounts == {1, 2, 100}

CardEmiTenures == (1..MaxInterestTenure) \cup {6, 240}

CardEmiRates == {0, 6000, 10000}

CardEmiInputs ==
  {x \in CardEmiAmounts \X CardEmiRates \X CardEmiTenures :
     x[2] > 0 => x[3] <= MaxInterestTenure /\ x[1] \in CardEmiInterestAmounts}

InitCardEmi ==
  /\ EmptyStore
  /\ \E x \in CardEmiInputs :
       probe = [fn |-> "card_emi", principal |-> x[1],
                annual_rate_percent |-> x[2], tenure_months |-> x[3],
                months_paid |-> 0,
                remaining |-> _card_emi_remaining_balance(x[1], x[2], x[3], 0),
                previous |-> _card_emi_remaining_balance(x[1], x[2], x[3], 0)]

(* a month passes on an entry that is still active *)
CardEmiMonthPasses ==
  /\ probe.fn = "card_emi"
  /\ probe.months_paid < probe.tenure_months
  /\ probe' = [probe EXCEPT
                 !.months_paid = @ + 1,
                 !.previous = probe.remaining,
                 !.remaining = _card_emi_remaining_balance(
                                  probe.principal, probe.annual_rate_percent,
                                  probe.tenure_months, probe.months_paid + 1)]
  /\ UNCHANGED <<today, incomes, loans, budgets, cards, entries, settings, audit>>

NextCardEmi == CardEmiMonthPasses

SpecCardEmi == InitCardEmi /\ [][NextCardEmi]_vars

CardEmiRunning ==
  /\ probe.fn = "card_emi"
  /\ probe.principal > 0
  /\ 1 <= probe.months_paid /\ probe.months_paid < probe.tenure_months

(* C15 as stated: for an active EMI entry with amount > 0 and              *)
(* 1 <= elapsed < tenure_months the reported remaining balance is strictly *)
(* greater than 0 and strictly less than the amount; at elapsed 0 it is    *)
(* the amount; it never increases with elapsed.                            *)
C15_EmiBalanceStrictlyInside ==
  probe.fn = "card_emi" =>
    /\ probe.months_paid = 0 => probe.remaining = 100 * probe.principal
    /\ probe.remaining <= probe.previous
    /\ CardEmiRunning =>
         probe.remaining > 0 /\ probe.remaining < 100 * probe.principal

(* half a paisa is less than one instalment of the principal *)
InstalmentShows == 200 * probe.principal > probe.tenure_months

(* C15, as the code has it: at elapsed 0 the reported remaining balance is *)
(* the amount and it never increases with elapsed; for 1 <= elapsed <      *)
(* tenure_months it lies between 0 and the amount, both included, because  *)
(* it is rounded to 2 decimals; when amount / tenure_months is more than   *)
(* half a paisa it is strictly greater than 0, and at rate 0 also strictly *)
(* less than the amount.                                                   *)
C15_EmiBalanceInside ==
  probe.fn = "card_emi" =>
    /\ probe.months_paid = 0 => probe.remaining = 100 * probe.principal
    /\ probe.remaining <= probe.previous
    /\ CardEmiRunning =>
         /\ probe.remaining >= 0 /\ probe.remaining <= 100 * probe.principal
         /\ InstalmentShows => probe.remaining > 0
         /\ InstalmentShows /\ probe.annual_rate_percent = 0 =>
              probe.remaining < 100 * probe.principal

(* a running entry with interest whose balance is strictly inside *)
C15_Witness ==
  /\ CardEmiRunning
  /\ probe.annual_rate_percent > 0
  /\ probe.remaining > 0 /\ probe.remaining < probe.previous
  /\ probe.previous < 100 * probe.principal

(* one rupee over 240 months, one month in: the balance rounds to 1.00 *)
C15_RoundsToAmountReached ==
  /\ CardEmiRunning
  /\ probe.months_paid = 1
  /\ probe.remaining = 100 * probe.principal

(* one rupee over 240 months, the last month: the balance rounds to 0.00 *)
C15_RoundsToZeroReached ==
  /\ CardEmiRunning
  /\ probe.months_paid = probe.tenure_months - 1
  /\ probe.remaining = 0

(***************************************************************************)
(* SpecIsolation: two users on the income, loan, budget and card pages.    *)
(* At some moment the snapshot of one user is taken and kept in the probe;  *)
(* from then on only the other user sends requests.                        *)
(***************************************************************************)
IsolationLoanForms == {LoanForm(Num(6000), Num(3000), Num(0), Num(2), Num(FirstDay))}

IsolationEditForms == {LoanForm(Num(6000), Num(2000), Num(1800), Num(3), Num(FirstDay))}

IsolationCardForms == {CardForm("Gold", Num(5000), Num(1200), Num(100))}

IsolationEntryForms ==
  [action : {"save_entry", "delete_entry"},
   entry_id : {0, 1},
   entry_type : {TYPE_EMI},
   entry_month : {Num(Date(2025, 1, 1))},
   amount : {Num(1200)},
   tenure_months : {Num(2)},
   description : {""}]

(* the model's card ids are positions in `cards`, which move when a row is *)
(* deleted; the database's ids do not, so here the snapshot's accounts,    *)
(* entries and card rows hold the card itself instead of its position      *)
SnapshotOf(user) ==
  LET snapshot == _financial_snapshot(user, settings)
  IN [snapshot EXCEPT
        !.credit_card_accounts = [j \in 1..Len(@) |-> cards[@[j]]],
        !.credit_card_spends = [j \in 1..Len(@) |-> [@[j] EXCEPT !.card = cards[@]]],
        !.credit_card_card_rows = [j \in 1..Len(@) |-> [@[j] EXCEPT !.card_id = cards[@]]]]

(* snapshot = _financial_snapshot(request.user, settings_obj) *)
TakeSnapshot(user) ==
  /\ probe = NoProbe
  /\ probe' = [fn |-> "isolation", user |-> user, snapshot |-> SnapshotOf(user)]
  /\ UNCHANGED <<today, incomes, loans, budgets, cards, entries, settings, audit>>

MayAct(actor) == IF probe = NoProbe THEN TRUE ELSE actor # probe.user

NextIsolation ==
  \/ \E actor \in Users : MayAct(actor) /\ add_income(actor, Num(4000), Num(0))
  \/ \E actor \in Users : MayAct(actor) /\ budget_view(actor, BudgetPost(Num(750)))
  \/ \E actor \in Users, form \in IsolationLoanForms :
       MayAct(actor) /\ Len(loans) < MaxLoans /\ add_loan(actor, form)
  \/ \E actor \in Users, loan_id \in 1..MaxLoans, form \in IsolationEditForms :
       MayAct(actor) /\ edit_loan(actor, loan_id, form)
  \/ \E actor \in Users, loan_id \in 1..MaxLoans :
       MayAct(actor) /\ delete_loan(actor, loan_id)
  \/ \E actor \in Users, card_form \in IsolationCardForms :
       MayAct(actor) /\ credit_card_add_view(actor, card_form)
  \/ \E actor \in Users, card_id \in 1..MaxCards :
       MayAct(actor) /\ credit_cards_view(actor, card_id)
  \/ \E actor \in Users, card_id \in 1..MaxCards, entry_form \in IsolationEntryForms :
       MayAct(actor) /\ credit_card_spend_view(actor, card_id, entry_form)
  \/ \E user \in Users : TakeSnapshot(user)

SpecIsolation == Init /\ [][NextIsolation]_vars

(* C16: whatever another user creates, edits or deletes, the               *)
(* financial_snapshot of a user stays what it was.                         *)
C16_SnapshotIsOwn ==
  probe.fn = "isolation" => SnapshotOf(probe.user) = probe.snapshot

(* after the snapshot of a user with an income, a loan and a card entry    *)
(* was taken, the other user has got an income, a loan and a card entry    *)
C16_Witness ==
  /\ probe.fn = "isolation"
  /\ probe.snapshot.total_income > 0
  /\ Len(probe.snapshot.loans) > 0
  /\ Len(UserEntries(probe.user)) > 0
  /\ \A other \in Users \ {probe.user} :
       /\ _financial_snapshot(other, settings).total_income > 0
       /\ Len(UserLoans(other)) > 0
       /\ Len(UserEntries(other)) > 0

(***************************************************************************)
(* SpecViews: the pages that compute the snapshots.  A request is handled  *)
(* to its end before the next one: a page puts what it computed into the   *)
(* probe and Render hands it out; the forms are handled in between.        *)
(***************************************************************************)
ViewsLoanForms == {LoanForm(Num(6000), Num(3000), Num(1300), Num(2), Num(FirstDay))}

ViewsCardForms == {CardForm("Gold", Num(5000), Num(1200), Num(100))}

ViewsEntryForms ==
  [action : {"save_entry"},
   entry_id : {0},
   entry_type : {TYPE_EMI, TYPE_MONTHLY_SPEND},
   entry_month : {Num(Date(2025, 1, 1))},
   amount : {Num(1200)},
   tenure_months : {Num(2)},
   description : {""}]

(* a dashboard that opens the user's budget the way budget_view does *)
dashboard_OpensBudget(user) ==
  /\ probe = NoProbe
  /\ probe' = [fn |-> "dashboard", user |-> user]
  /\ budgets' = [budgets EXCEPT ![user] =
                   IF IsNone(@)
                     THEN Some([grocery |-> 0, rent |-> 0, transport |-> 0,
                                entertainment |-> 0])
                     ELSE @]
  /\ UNCHANGED <<today, incomes, loans, cards, entries, settings, audit>>

(* snapshot = _financial_snapshot(request.user), then _build_chart_payload *)
dashboard(user) ==
  /\ probe = NoProbe
  /\ probe' = [fn |-> "dashboard", user |-> user,
               snapshot |-> _financial_snapshot(user, settings),
               chart_payload |-> _build_chart_payload(_financial_snapshot(user, settings))]
  /\ UNCHANGED <<today, incomes, loans, budgets, cards, entries, settings, audit>>

(* the GET of credit_cards_view: cc_snapshot = _credit_card_snapshot(request.user) *)
credit_cards_page(user) ==
  /\ probe = NoProbe
  /\ probe' = [fn |-> "credit_cards", user |-> user,
               cc_snapshot |-> _credit_card_snapshot(user, today)]
  /\ UNCHANGED <<today, incomes, loans, budgets, cards, entries, settings, audit>>

(* snapshot = _financial_snapshot(target_user, ...); risk = _risk_profile(snapshot) *)
admin_user_detail(target_user) ==
  /\ probe = NoProbe
  /\ probe' = [fn |-> "admin_user_detail", user |-> target_user,
               snapshot |-> _financial_snapshot(target_user, settings),
               risk |-> _risk_profile(_financial_snapshot(target_user, settings))]
  /\ UNCHANGED <<today, incomes, loans, budgets, cards, entries, settings, audit>>

(* return _render(request, template, context) *)
Render ==
  /\ probe # NoProbe
  /\ probe' = NoProbe
  /\ UNCHANGED <<today, incomes, loans, budgets, cards, entries, settings, audit>>

NextViews ==
  \/ \E user \in Users : dashboard(user)
  \/ \E user \in Users : credit_cards_page(user)
  \/ \E user \in Users : admin_user_detail(user)
  \/ Render
  \/ \E user \in Users : probe = NoProbe /\ add_income(user, Num(4000), Num(0))
  \/ \E user \in Users : probe = NoProbe /\ budget_view(user, BudgetPost(Num(750)))
  \/ \E user \in Users, form \in ViewsLoanForms :
       probe = NoProbe /\ Len(loans) < MaxLoans /\ add_loan(user, form)
  \/ \E user \in Users, card_form \in ViewsCardForms :
       probe = NoProbe /\ credit_card_add_view(user, card_form)
  \/ \E user \in Users, card_id \in 1..MaxCards, entry_form \in ViewsEntryForms :
       probe = NoProbe /\ credit_card_spend_view(user, card_id, entry_form)

SpecViews == Init /\ [][NextViews]_vars

(* C17: a step that computes credit_card_snapshot, financial_snapshot,     *)
(* risk_profile or build_chart_payload (the steps that fill the probe)     *)
(* leaves every Income, Loan, Budget, CreditCardAccount and                *)
(* CreditCardEntry row as it was.                                          *)
C17_SnapshotsWriteNothing ==
  [][probe' # NoProbe /\ probe' # probe =>
       /\ incomes' = incomes /\ loans' = loans /\ budgets' = budgets
       /\ cards' = cards /\ entries' = entries]_vars

(* the dashboard computed for a user without a budget who has an income,   *)
(* an active loan and a card entry                                         *)
C17_Witness ==
  /\ probe.fn = "dashboard"
  /\ IsNone(budgets[probe.user])
  /\ probe.snapshot.total_income > 0
  /\ probe.snapshot.total_emi > 0
  /\ probe.snapshot.credit_card_total_outstanding > 0
  /\ probe.chart_payload = _build_chart_payload(probe.snapshot)

(* the risk profile computed for a user with a loan above 12 percent *)
C17_RiskComputedReached ==
  /\ probe.fn = "admin_user_detail"
  /\ probe.snapshot.high_interest_loans # <<>>
  /\ probe.risk.level \in {"low", "medium", "high"}

(* the card snapshot computed for a user with a card entry *)
C17_CardSnapshotReached ==
  /\ probe.fn = "credit_cards"
  /\ probe.cc_snapshot.total_amount > 0

(***************************************************************************)
(* SpecAdvice: one user's loans, income and card spends, and the advice    *)
(* texts of the snapshot.  Loans start on the first day or, once edited,   *)
(* in a later month; the card has a limit of 100000.                       *)
(***************************************************************************)
AdviceUser == "u1"

AdviceLoanForms ==
  {LoanForm(Num(6000), Num(3000), Num(1200), Num(2), Num(FirstDay)),
   LoanForm(Num(6000), Num(2000), Num(1300), Num(3), Num(FirstDay)),
   LoanForm(Num(6000), Num(2000), Num(2000), Num(3), Num(FirstDay))}

AdviceEditForms ==
  {LoanForm(Num(6000), Num(2000), Num(1300), Num(3), Num(Date(2025, 3, 1))),
   LoanForm(Num(6000), Num(2000), Num(2000), Num(3), Num(Date(2025, 4, 1)))}

AdviceIncomes == {Num(4000), Num(10000)}

AdviceCardForms == {CardForm("Gold", Num(100000), Num(1200), Num(100))}

AdviceEntryForms ==
  [action : {"save_entry"},
   entry_id : {0},
   entry_type : {TYPE_MONTHLY_SPEND},
   entry_month : {Num(Date(2025, 1, 1))},
   amount : {Num(40000), Num(50000), Num(79999), Num(80000)},
   tenure_months : {Blank},
   description : {""}]

NextAdvice ==
  \/ \E later \in ClockDates : Tick(later)
  \/ \E monthly_salary \in AdviceIncomes : add_income(AdviceUser, monthly_salary, Num(0))
  \/ \E form \in AdviceLoanForms : Len(loans) < MaxLoans /\ add_loan(AdviceUser, form)
  \/ \E loan_id \in 1..MaxLoans, form \in AdviceEditForms :
       edit_loan(AdviceUser, loan_id, form)
  \/ \E card_form \in AdviceCardForms : credit_card_add_view(AdviceUser, card_form)
  \/ \E card_id \in 1..MaxCards, entry_form \in AdviceEntryForms :
       credit_card_spend_view(AdviceUser, card_id, entry_form)

SpecAdvice == Init /\ [][NextAdvice]_vars

Advice == _financial_snapshot(AdviceUser, settings)

(* C18: repayment_strategy follows a strict priority: without active and   *)
(* upcoming loans 'keep saving'; without active but with upcoming loans    *)
(* 'prepare cash buffer' with the earliest upcoming start_date; otherwise  *)
(* avalanche when emi_ratio > emi_yellow_limit; otherwise snowball or      *)
(* avalanche when more than one loan is active; otherwise, with exactly    *)
(* one active loan, continue and prepay.                                   *)
C18_StrategyByPriority ==
  LET active == Advice.active_loans
      upcoming == Advice.upcoming_loans
      strategy == Advice.repayment_strategy
  IN /\ active = <<>> /\ upcoming = <<>> =>
          strategy = <<"No active loans. Keep saving and avoid new high-interest debt.">>
     /\ active = <<>> /\ upcoming # <<>> =>
          /\ strategy[1] = "No active EMI. Upcoming loan starts on"
          /\ \E i \in 1..Len(upcoming) :
               /\ strategy[2] = strftime_dbY(upcoming[i].start_date)
               /\ \A j \in 1..Len(upcoming) :
                    DateLE(upcoming[i].start_date, upcoming[j].start_date)
     /\ active # <<>> /\ Advice.emi_ratio > settings.emi_yellow_limit =>
          strategy = <<"Use avalanche method">>
     /\ Len(active) > 1 /\ Advice.emi_ratio <= settings.emi_yellow_limit =>
          strategy = <<"Use snowball or avalanche">>
     /\ active # <<>> /\ Len(active) <= 1 /\ Advice.emi_ratio <= settings.emi_yellow_limit =>
          /\ strategy = <<"Single loan detected">>
          /\ Len(active) = 1

(* two active loans and an EMI ratio above the yellow limit: avalanche *)
C18_Witness ==
  /\ Len(Advice.active_loans) > 1
  /\ Advice.emi_ratio > settings.emi_yellow_limit
  /\ Advice.repayment_strategy = <<"Use avalanche method">>

C18_SnowballReached ==
  /\ Len(Advice.active_loans) > 1
  /\ Advice.repayment_strategy = <<"Use snowball or avalanche">>

C18_SingleLoanReached == Advice.repayment_strategy = <<"Single loan detected">>

(* two upcoming loans with different start dates and no active one *)
C18_EarliestUpcomingReached ==
  /\ Advice.active_loans = <<>>
  /\ Len(Advice.upcoming_loans) = 2
  /\ Advice.upcoming_loans[1].start_date # Advice.upcoming_loans[2].start_date
  /\ Advice.repayment_strategy[1] = "No active EMI. Upcoming loan starts on"

(* only closed loans: keep saving *)
C18_KeepSavingReached ==
  /\ Advice.closed_loans # <<>>
  /\ Advice.repayment_strategy =
       <<"No active loans. Keep saving and avoid new high-interest debt.">>

(* C19: high_interest_loans holds exactly the active loans whose           *)
(* interest_rate is strictly above high_interest_rate_limit, and no        *)
(* upcoming or closed loan; when it is not empty the 'Prioritize' text     *)
(* names a loan of the greatest rate in it and the refinancing text gives  *)
(* its size; when it is empty both texts say there is nothing to do.       *)
C19_HighInterestLoans ==
  LET high == Advice.high_interest_loans
      active == Advice.active_loans
      limit == settings.high_interest_rate_limit
      priority == Advice.priority_suggestion
      refinancing == Advice.refinancing_suggestion
  IN /\ \A i \in 1..Len(high) :
          /\ LoanStatus(high[i], today) = "active"
          /\ high[i].interest_rate > limit
          /\ CountIn(high, high[i]) = CountIn(active, high[i])
     /\ \A i \in 1..Len(active) :
          active[i].interest_rate > limit => CountIn(high, active[i]) > 0
     /\ high # <<>> =>
          /\ priority[1] = "Prioritize"
          /\ \E i \in 1..Len(high) :
               /\ priority[2] = high[i].loan_type
               /\ priority[3] = high[i].interest_rate
               /\ \A j \in 1..Len(high) : high[j].interest_rate <= high[i].interest_rate
          /\ refinancing[1] = "Consider refinancing"
          /\ refinancing[2] = Len(high)
     /\ high = <<>> =>
          /\ priority = <<"No high-interest loan priority right now.">>
          /\ refinancing = <<"No refinancing alert. Current rates are within threshold.">>

(* two high-interest loans, the one with the greater rate second *)
C19_Witness ==
  /\ Len(Advice.high_interest_loans) = 2
  /\ Advice.high_interest_loans[1].interest_rate
       < Advice.high_interest_loans[2].interest_rate
  /\ Advice.priority_suggestion[3] = Advice.high_interest_loans[2].interest_rate

(* an active loan at exactly the limit is not a high-interest loan *)
C19_AtLimitReached ==
  /\ Len(Advice.active_loans) = 1
  /\ Advice.active_loans[1].interest_rate = settings.high_interest_rate_limit
  /\ Advice.high_interest_loans = <<>>

(* an upcoming loan above the limit next to an active one below it *)
C19_UpcomingLeftOutReached ==
  /\ \E i \in 1..Len(Advice.upcoming_loans) :
       Advice.upcoming_loans[i].interest_rate > settings.high_interest_rate_limit
  /\ Advice.active_loans # <<>>
  /\ Advice.high_interest_loans = <<>>

(* a closed loan above the limit *)
C19_ClosedLeftOutReached ==
  /\ \E i \in 1..Len(Advice.closed_loans) :
       Advice.closed_loans[i].interest_rate > settings.high_interest_rate_limit
  /\ Advice.high_interest_loans = <<>>

AlertUrgent == "Card utilization is above 80%. Focus on repayment and pause new spends."

AlertModerate == "Card utilization is moderate-high. Target utilization below 30%."

AlertHealthy == "Card utilization is in a healthier range. Maintain timely payments."

AlertNoLimit == "No card limit configured yet. Add card limits for better debt tracking."

(* the alert that goes with a utilization of num / den percent and a limit *)
AlertFor(num, den, limit) ==
  IF limit = 0 THEN AlertNoLimit
  ELSE IF num >= 80 * den THEN AlertUrgent
  ELSE IF num >= 50 * den THEN AlertModerate
  ELSE AlertHealthy

(* C20 as stated: the alert follows outstanding / total limit * 100 (0     *)
(* when the limit is 0): urgent from 80, moderate from 50 to below 80,     *)
(* healthy below 50 with a limit above 0, and 'configure card limit' when  *)
(* the limit is 0, whatever is outstanding.  The outstanding amount is in  *)
(* paise and the limit in rupees, so their quotient is the percentage.     *)
C20_AlertByUtilization ==
  Advice.credit_card_alert =
    AlertFor(Advice.credit_card_total_outstanding,
             Advice.credit_card_total_limit,
             Advice.credit_card_total_limit)

(* C20, as the code has it: the alert follows the utilization rounded to   *)
(* 2 decimals, the snapshot's credit_card_utilization_ratio (in hundredths *)
(* of a percent here).                                                     *)
C20_AlertByRoundedUtilization ==
  Advice.credit_card_alert =
    AlertFor(Advice.credit_card_utilization_ratio, 100, Advice.credit_card_total_limit)

(* spends of exactly 80 percent of the limit: urgent *)
C20_Witness ==
  /\ Advice.credit_card_total_limit > 0
  /\ Advice.credit_card_utilization_ratio = 8000
  /\ Advice.credit_card_total_outstanding = 80 * Advice.credit_card_total_limit
  /\ Advice.credit_card_alert = AlertUrgent

(* 79999 of 100000: 79.999 percent, reported as 80.0 and urgent *)
C20_RoundedUpReached ==
  /\ Advice.credit_card_total_outstanding < 80 * Advice.credit_card_total_limit
  /\ Advice.credit_card_utilization_ratio = 8000
  /\ Advice.credit_card_alert = AlertUrgent

C20_ModerateAtFiftyReached ==
  /\ Advice.credit_card_utilization_ratio = 5000
  /\ Advice.credit_card_alert = AlertModerate

C20_HealthyReached ==
  /\ Advice.credit_card_utilization_ratio > 0
  /\ Advice.credit_card_alert = AlertHealthy

(* a card whose spends are of an earlier month: nothing outstanding *)
C20_HealthyAtZeroReached ==
  /\ Advice.credit_card_total_limit > 0
  /\ Advice.credit_card_total_outstanding = 0
  /\ Advice.credit_card_alert = AlertHealthy

C20_NoLimitReached ==
  /\ Advice.credit_card_total_limit = 0
  /\ Advice.credit_card_alert = AlertNoLimit

(***************************************************************************)
(* The per-card rows of the credit-card snapshot (SpecLedger)              *)
(***************************************************************************)
OwnCards(user) == {c \in 1..Len(cards) : cards[c].user = user}

(* the entries of a card that enter its amounts at the month of `today` *)
CountedEntryIds(card_id) ==
  {i \in EntryIds :
     /\ entries[i].card = card_id
     /\ \/ i \in ActiveEmiIds(cards[card_id].user)
        \/ i \in CurrentSpendIds(cards[card_id].user)}

RowIsAllZero(row) ==
  /\ row.emi_monthly_due = 0
  /\ row.emi_remaining_balance = 0
  /\ row.monthly_spend_amount = 0
  /\ row.total_amount = 0
  /\ row.interest_estimate = 0
  /\ row.reward_estimate = 0
  /\ row.net_cost = 0

(* the sort key of a row: descending outstanding, then the lowered name *)
RowComesBefore(a, b) ==
  \/ a.total_amount > b.total_amount
  \/ /\ a.total_amount = b.total_amount
     /\ LowerRank(a.card_name) <= LowerRank(b.card_name)

C21_BareCardReached ==
  \E user \in Users :
    LET rows == _credit_card_snapshot(user, today).per_card_rows
    IN Len(rows) = 2 /\ rows[1].entry_count = 1 /\ rows[2].entry_count = 0

(* two cards with the same positive outstanding, in name order *)
C21_TieReached ==
  \E user \in Users :
    LET rows == _credit_card_snapshot(user, today).per_card_rows
    IN /\ Len(rows) = 2
       /\ rows[1].total_amount = rows[2].total_amount
       /\ rows[1].total_amount > 0
       /\ LowerRank(rows[1].card_name) < LowerRank(rows[2].card_name)


(***************************************************************************)
(* SpecApr: the weighted APR of a portfolio.  The probe runs the two       *)
(* accumulations of the snapshot's loop that enter the APR, one balance at *)
(* a time, and then the division after the loop.  The rate of a card is a  *)
(* float of the card form (0 to 100, any number of decimals): here it is a *)
(* number of thousandths of a percent.                                     *)
(***************************************************************************)
MaxBalances == 3

(* paise *)
AprBalances == {0, 100, 300, 1200}

(* thousandths of a percent: 0, 0.006, 12, 12.344, 12.346 and 100 percent *)
AprRates == {0, 6, 12000, 12344, 12346, 100000}

AprSpends == {100, 700}

InitApr ==
  /\ EmptyStore
  /\ probe = [fn |-> "apr", total_amount |-> 0, weighted_rate_numerator |-> <<0, 1>>,
              balances |-> <<>>, weighted_apr |-> None]

(* an active EMI entry: total_amount += remaining_balance and             *)
(* weighted_rate_numerator += remaining_balance * card.emi_interest_rate   *)
AprAddEmiBalance(remaining_balance, emi_interest_rate) ==
  /\ probe.fn = "apr"
  /\ probe.weighted_apr = None
  /\ Len(probe.balances) < MaxBalances
  /\ probe' = [probe EXCEPT
                 !.total_amount = @ + remaining_balance,
                 !.weighted_rate_numerator =
                    RAdd(@, RMul(FromH(remaining_balance), Rat(emi_interest_rate, 1000))),
                 !.balances = Append(@, [kind |-> TYPE_EMI, amount |-> remaining_balance,
                                         rate |-> emi_interest_rate])]
  /\ UNCHANGED <<today, incomes, loans, budgets, cards, entries, settings, audit>>

(* a spend entry of the reference month: total_amount += spend_amount *)
AprAddSpend(spend_amount) ==
  /\ probe.fn = "apr"
  /\ probe.weighted_apr = None
  /\ Len(probe.balances) < MaxBalances
  /\ probe' = [probe EXCEPT
                 !.total_amount = @ + spend_amount,
                 !.balances = Append(@, [kind |-> TYPE_MONTHLY_SPEND,
                                         amount |-> spend_amount, rate |-> 0])]
  /\ UNCHANGED <<today, incomes, loans, budgets, cards, entries, settings, audit>>

(* the statement after the loop *)
AprDivide ==
  /\ probe.fn = "apr"
  /\ probe.weighted_apr = None
  /\ probe' = [probe EXCEPT
                 !.weighted_apr = Some(WeightedApr(probe.weighted_rate_numerator,
                                                   probe.total_amount))]
  /\ UNCHANGED <<today, incomes, loans, budgets, cards, entries, settings, audit>>

NextApr ==
  \/ \E remaining_balance \in AprBalances, emi_interest_rate \in AprRates :
       AprAddEmiBalance(remaining_balance, emi_interest_rate)
  \/ \E spend_amount \in AprSpends : AprAddSpend(spend_amount)
  \/ AprDivide

SpecApr == InitApr /\ [][NextApr]_vars

AprDone == probe.fn = "apr" /\ probe.weighted_apr # None

(* the sum of amount x rate, and of the amounts, over the balances *)
AprWeightSum == SeqSum([j \in 1..Len(probe.balances) |->
                          probe.balances[j].amount * probe.balances[j].rate])

AprAmountSum == SeqSum([j \in 1..Len(probe.balances) |-> probe.balances[j].amount])

(* the rates of the cards with a positive active EMI balance *)
AprEmiRates ==
  {probe.balances[j].rate : j \in {k \in 1..Len(probe.balances) :
                                     /\ probe.balances[k].kind = TYPE_EMI
                                     /\ probe.balances[k].amount > 0}}

AprHighestRate ==
  IF AprEmiRates = {} THEN 0
  ELSE CHOOSE r \in AprEmiRates : \A other \in AprEmiRates : other <= r

(* the quotient of the sums, rounded to 2 decimals; 0 without outstanding *)
AprIsRoundedQuotient ==
  probe.weighted_apr[1] =
    IF AprAmountSum = 0 THEN 0
    ELSE Round2(Rat(AprWeightSum, 1000 * AprAmountSum))

(* C22 as stated: the weighted APR is the quotient of the sums (to the 2   *)
(* decimals reported), 0 when nothing is outstanding, and it never exceeds *)
(* the highest EMI rate among the cards with an active EMI balance.        *)
C22_AprNeverAboveHighestRate ==
  AprDone =>
    /\ AprIsRoundedQuotient
    /\ 10 * probe.weighted_apr[1] <= AprHighestRate

(* C22: the weighted APR is the quotient of the sums rounded to 2          *)
(* decimals, 0 when nothing is outstanding, and it never exceeds the       *)
(* highest EMI rate among the cards with an active EMI balance rounded to  *)
(* 2 decimals.                                                             *)
C22_AprNeverAboveRoundedHighestRate ==
  AprDone =>
    /\ AprIsRoundedQuotient
    /\ probe.weighted_apr[1] <= Round2(Rat(AprHighestRate, 1000))

(* an EMI balance at 12.346 percent next to a spend at rate 0 *)
C22_Witness ==
  /\ AprDone
  /\ \E j, k \in 1..Len(probe.balances) :
       /\ probe.balances[j].kind = TYPE_EMI
       /\ probe.balances[j].amount > 0
       /\ probe.balances[j].rate = 12346
       /\ probe.balances[k].kind = TYPE_MONTHLY_SPEND
  /\ probe.weighted_apr[1] > 0
  /\ 10 * probe.weighted_apr[1] < AprHighestRate

(* one EMI balance at 12.346 percent alone: the APR is 12.35 *)
C22_RoundedAboveReached ==
  /\ AprDone
  /\ AprEmiRates = {12346}
  /\ probe.weighted_apr[1] = 1235

(* nothing outstanding: the APR is 0 *)
C22_NothingOutstandingReached ==
  AprDone /\ Len(probe.balances) > 0 /\ probe.total_amount = 0 /\ probe.weighted_apr[1] = 0


(***************************************************************************)
(* SpecSavings: one user's income, loan, card spends and budget, and the   *)
(* savings target of the system controls.  The loan's EMI and the card     *)
(* spend can exceed the smaller income and the card's limit, and the       *)
(* larger budget exceeds what the income leaves.                           *)
(***************************************************************************)
SavingsUser == "u1"

SavingsIncomes == {Num(0), Num(1001), Num(10000)}

SavingsLoanForms == {LoanForm(Num(6000), Num(3000), Num(0), Num(2), Num(FirstDay))}

SavingsCardForms == {CardForm("Gold", Num(1000), Num(1200), Num(100))}

SavingsEntryForms ==
  [action : {"save_entry"},
   entry_id : {0},
   entry_type : {TYPE_EMI, TYPE_MONTHLY_SPEND},
   entry_month : {Num(Date(2025, 1, 1))},
   amount : {Num(400), Num(1200)},
   tenure_months : {Num(2)},
   description : {""}]

SavingsBudgetPosts == {BudgetPost(Num(750)), BudgetPost(Num(9000))}

SavingsControlsPosts ==
  {ControlsPost(Blank, Blank, Blank, Num(3333), ""),
   ControlsPost(Blank, Blank, Blank, Num(0), "")}

NextSavings ==
  \/ \E later \in ClockDates : Tick(later)
  \/ \E monthly_salary \in SavingsIncomes : add_income(SavingsUser, monthly_salary, Num(0))
  \/ \E form \in SavingsLoanForms : Len(loans) < MaxLoans /\ add_loan(SavingsUser, form)
  \/ \E card_form \in SavingsCardForms : credit_card_add_view(SavingsUser, card_form)
  \/ \E card_id \in 1..MaxCards, entry_form \in SavingsEntryForms :
       credit_card_spend_view(SavingsUser, card_id, entry_form)
  \/ \E post \in SavingsBudgetPosts : budget_view(SavingsUser, post)
  \/ \E post \in SavingsControlsPosts : admin_system_controls(post)

SpecSavings == Init /\ [][NextSavings]_vars

Savings == _financial_snapshot(SavingsUser, settings)

(* the stored income and budget of the user, in rupees *)
SavingsIncome ==
  IF IsNone(incomes[SavingsUser]) THEN 0
  ELSE Val(incomes[SavingsUser]).monthly_salary + Val(incomes[SavingsUser]).other_income

SavingsBudget ==
  IF IsNone(budgets[SavingsUser]) THEN 0
  ELSE Val(budgets[SavingsUser]).grocery + Val(budgets[SavingsUser]).rent
         + Val(budgets[SavingsUser]).transport + Val(budgets[SavingsUser]).entertainment

InPercentRange(progress) == 0 <= progress /\ progress <= 10000

(* C23: remaining_after_obligations = total_income -                       *)
(* total_monthly_obligation, net_savings_after_cards =                     *)
(* remaining_after_obligations - total_budget_expense, savings_target =    *)
(* total_income x savings_target_percent / 100 (to the 2 decimals          *)
(* reported), money compared in paise; and each of the five progress       *)
(* values lies between 0 and 100.                                          *)
C23_SavingsAndProgress ==
  /\ Savings.total_income = SavingsIncome
  /\ Savings.total_budget_expense = SavingsBudget
  /\ Savings.remaining_after_obligations
       = 100 * SavingsIncome - Savings.total_monthly_obligation
  /\ Savings.net_savings_after_cards
       = Savings.remaining_after_obligations - 100 * SavingsBudget
  /\ Savings.savings_target
       = Round2(Rat(SavingsIncome * settings.savings_target_percent, 10000))
  /\ InPercentRange(Savings.emi_progress)
  /\ InPercentRange(Savings.savings_progress)
  /\ InPercentRange(Savings.savings_progress_after_cards)
  /\ InPercentRange(Savings.overall_burden_progress)
  /\ InPercentRange(Savings.credit_card_utilization_progress)

(* obligations above the income, a budget on top, the card above its       *)
(* limit: negative savings, ratios above 100, every progress value clamped *)
C23_Witness ==
  /\ Savings.total_income = 1001
  /\ Savings.savings_target > 0
  /\ Savings.net_savings_after_cards < 0
  /\ Savings.emi_ratio > 10000
  /\ Savings.overall_burden_ratio > 10000
  /\ Savings.credit_card_utilization_ratio > 10000
  /\ Savings.emi_progress = 10000
  /\ Savings.overall_burden_progress = 10000
  /\ Savings.credit_card_utilization_progress = 10000
  /\ Savings.savings_progress = 0
  /\ Savings.savings_progress_after_cards = 0

(* a savings target of 33.33 percent of 1001: 333.63 *)
C23_RoundedTargetReached ==
  Savings.total_income = 1001 /\ Savings.savings_target = 33363

(* savings strictly between 0 and the target *)
C23_PartialProgressReached ==
  /\ 0 < Savings.savings_progress_after_cards
  /\ Savings.savings_progress_after_cards < 10000
  /\ Savings.savings_progress_after_cards < Savings.savings_progress

(* no income: the target is 0 and the savings progress values are 0 *)
C23_NoIncomeReached ==
  /\ Savings.total_income = 0
  /\ Savings.total_monthly_obligation > 0
  /\ Savings.savings_target = 0
  /\ Savings.savings_progress = 0
  /\ Savings.emi_progress = 0


(***************************************************************************)
(* SpecControls: the admin posts system controls, one after another, from  *)
(* the default settings.  A field left out or not a number falls back to   *)
(* the stored value.                                                       *)
(***************************************************************************)
ControlsGreenInputs == {Blank, Bad, Num(-1), Num(0), Num(5000)}

ControlsYellowInputs == {Blank, Num(3000), Num(10000), Num(10001)}

ControlsHighInterestInputs == {Blank, Num(0), Num(1), Num(1800)}

ControlsSavingsInputs == {Blank, Num(0), Num(50), Num(100), Num(9950), Num(10000)}

ControlsPosts ==
  {ControlsPost(g, y, h, t, m) :
     g \in ControlsGreenInputs, y \in ControlsYellowInputs,
     h \in ControlsHighInterestInputs, t \in ControlsSavingsInputs,
     m \in {"", LongAdvisory}}

NextControls == \E post \in ControlsPosts : admin_system_controls(post)

SpecControls == Init /\ [][NextControls]_vars

(* the errors the handler finds in a POST, given the stored settings *)
PostErrors(post) ==
  SystemControlErrors(_to_float(post.emi_green_limit, settings.emi_green_limit),
                      _to_float(post.emi_yellow_limit, settings.emi_yellow_limit),
                      _to_float(post.high_interest_rate_limit,
                                settings.high_interest_rate_limit),
                      _to_float(post.savings_target_percent,
                                settings.savings_target_percent),
                      post.advisory_message)

ThresholdsValid ==
  /\ 0 <= settings.emi_green_limit
  /\ settings.emi_green_limit < settings.emi_yellow_limit
  /\ settings.emi_yellow_limit <= 10000
  /\ settings.high_interest_rate_limit > 0

(* a POST with a validation error changes no setting and logs nothing *)
FailedPostWritesNothing ==
  (settings' # settings \/ audit' # audit) =>
    \A post \in ControlsPosts : PostErrors(post) # {} => ~admin_system_controls(post)

(* C24: after any sequence of POSTs from the defaults the stored limits    *)
(* satisfy 0 <= emi_green_limit < emi_yellow_limit <= 100 and              *)
(* high_interest_rate_limit > 0, and a POST that fails a validation leaves *)
(* every stored setting unchanged and writes no audit-log entry.           *)
C24_ThresholdsStayValid == []ThresholdsValid /\ [][FailedPostWritesNothing]_vars

(* two accepted POSTs, the second widening the zones to 0 and 100 *)
C24_Witness ==
  /\ audit = 2
  /\ settings.emi_green_limit = 0
  /\ settings.emi_yellow_limit = 10000
  /\ settings.high_interest_rate_limit = 1

(* after an accepted POST, a state in which a POST of a green limit above   *)
(* the stored yellow limit is one the handler rejects                      *)
C24_RejectedPostReached ==
  /\ audit = 1
  /\ settings.emi_yellow_limit = 3000
  /\ PostErrors(ControlsPost(Num(5000), Blank, Blank, Blank, "")) # {}


(* C25 as stated: the stored savings_target_percent is within 1..99        *)
(* inclusive after any sequence of POSTs, every submitted value outside    *)
(* [1, 99] being rejected.                                                 *)
C25_SavingsTargetWithin1To99 ==
  100 <= settings.savings_target_percent /\ settings.savings_target_percent <= 9900

(* what the handler's test `<= 0 or >= 100` keeps: the open range 0..100 *)
C25_SavingsTargetInsideOpenRange ==
  0 < settings.savings_target_percent /\ settings.savings_target_percent < 10000

(* a submitted 0.5 is stored *)
C25_HalfPercentStored == audit > 0 /\ settings.savings_target_percent = 50

(* a submitted 99.5 is stored *)
C25_AboveNinetyNineStored == audit > 0 /\ settings.savings_target_percent = 9950


(***************************************************************************)
(* SpecLoanForms: two users add, edit and delete loans with submissions    *)
(* that pass and submissions that fail the validation, and the clock.      *)
(***************************************************************************)
GoodLoanForm == LoanForm(Num(1200), Num(400), Num(0), Num(3), Num(FirstDay))

AcceptedLoanForms ==
  {GoodLoanForm,
   LoanForm(Num(1), Num(1), Num(10000), Num(1), Num(FirstDay)),
   LoanForm(Num(1200), Blank, Num(0), Num(3), Num(FirstDay)),
   LoanForm(Num(1200), Num(400), Blank, Num(3), Num(FirstDay)),
   [GoodLoanForm EXCEPT !.loan_period_months = Blank, !.end_date = Num(FirstDay)],
   [GoodLoanForm EXCEPT !.interest_rate = Num(833), !.interest_rate_mode = "monthly"]}

RejectedLoanForms ==
  {LoanForm(Num(0), Num(400), Num(0), Num(3), Num(FirstDay)),
   LoanForm(Num(1200), Num(0), Num(0), Num(3), Num(FirstDay)),
   LoanForm(Num(1200), Num(400), Num(10001), Num(3), Num(FirstDay)),
   LoanForm(Num(1200), Num(1000), Blank, Num(3), Num(FirstDay)),
   LoanForm(Num(1200), Num(300), Blank, Num(3), Num(FirstDay)),
   [GoodLoanForm EXCEPT !.loan_period_months = Blank, !.end_date = Num(Date(2025, 1, 14))],
   [GoodLoanForm EXCEPT !.interest_rate = Num(834), !.interest_rate_mode = "monthly"],
   [GoodLoanForm EXCEPT !.loan_type = ""]}

SubmittedLoanForms == AcceptedLoanForms \cup RejectedLoanForms

NextLoanForms ==
  \/ \E later \in ClockDates : Tick(later)
  \/ \E user \in Users, form \in SubmittedLoanForms :
       Len(loans) < MaxLoans /\ add_loan(user, form)
  \/ \E user \in Users, loan_id \in 1..MaxLoans, form \in SubmittedLoanForms :
       edit_loan(user, loan_id, form)
  \/ \E user \in Users, loan_id \in 1..MaxLoans : delete_loan(user, loan_id)

SpecLoanForms == Init /\ [][NextLoanForms]_vars

StoredLoansValid ==
  \A i \in 1..Len(loans) :
    /\ loans[i].principal >= 1
    /\ loans[i].monthly_emi >= 1
    /\ 0 <= loans[i].interest_rate
    /\ loans[i].interest_rate <= 10000
    /\ DateLE(loans[i].start_date, loans[i].end_date)

(* the loans of the users other than `user`, in id order *)
LoansOfOthers(user, loan_list) ==
  Pick(loan_list, SelectIdx([i \in 1..Len(loan_list) |-> loan_list[i].user # user],
                            Len(loan_list)))

(* the step appends the row of an accepted add_loan submission, or puts    *)
(* the row of an accepted edit_loan submission in place of a loan of the   *)
(* same user                                                               *)
WritesAcceptedSubmission(form) ==
  LET added == _validate_loan_form_submission(form, today, FALSE)[1]
      edited == _validate_loan_form_submission(form, today, TRUE)[1]
  IN \/ /\ ~IsNone(added)
        /\ \E user \in Users : loans' = Append(loans, LoanRow(user, Val(added)))
     \/ /\ ~IsNone(edited)
        /\ \E i \in 1..Len(loans) :
             loans' = [loans EXCEPT ![i] = LoanRow(loans[i].user, Val(edited))]

(* a step that changes the loans writes an accepted submission or deletes  *)
(* a loan: a submission with errors creates and changes nothing, and an    *)
(* edit leaves every loan with its owner                                   *)
OnlyAcceptedSubmissionsWrite ==
  loans' # loans =>
    \/ \E i \in 1..Len(loans) : loans' = RemoveAt(loans, i)
    \/ \E form \in SubmittedLoanForms : WritesAcceptedSubmission(form)

(* a deletion leaves the loans of every other user as they were *)
OnlyOwnLoansDeleted ==
  \A user \in Users, loan_id \in 1..MaxLoans :
    delete_loan(user, loan_id) => LoansOfOthers(user, loans') = LoansOfOthers(user, loans)

C26_AutoCalculatedReached ==
  /\ Len(loans) = 2
  /\ loans[1].monthly_emi = 400 /\ loans[1].interest_rate = 0
  /\ loans[2].interest_rate = 9996

(* a day on which an accepted form of the first day is outside the window *)
C26_WindowRejectsReached ==
  /\ Len(loans) = 1
  /\ IsNone(_validate_loan_form_submission(GoodLoanForm, today, FALSE)[1])
  /\ ~IsNone(_validate_loan_form_submission(GoodLoanForm, today, TRUE)[1])


(***************************************************************************)
(* SpecReset: one browser session asks for a password-reset OTP and posts  *)
(* the reset form, while the clock runs.  The probe holds the accounts'    *)
(* passwords, the session's reset_otp_data, the time in minutes, and, as   *)
(* an observation, the request of the last step with the message it got    *)
(* and the time the stored OTP was issued.                                 *)
(***************************************************************************)
MaxMinutes == 11

(* timedelta(minutes=10) *)
OtpValidMinutes == 10

ResetAccounts == {"ann@x.org", "bob@x.org"}

InitialPassword == "OldStrongPass0"

(* str.lower() on the e-mail addresses of the model *)
EmailLower(email) == IF email = "ANN@x.org" THEN "ann@x.org" ELSE email

(* django's validate_email *)
_is_valid_email(email) == email \notin {"", "not-an-email"}

(* User.objects.filter(email=email).first(): the accounts the lookup can   *)
(* return, None for no account.  Whether `=` matches an address that       *)
(* differs in case only depends on the collation of the database.          *)
UserWithEmail(email) ==
  IF email \in ResetAccounts THEN {Some(email)}
  ELSE IF EmailLower(email) \in ResetAccounts THEN {Some(EmailLower(email)), None}
  ELSE {None}

(* _validate_otp: the error of a submitted OTP *)
_validate_otp(otp) ==
  IF otp = "" THEN "OTP is required."
  ELSE IF otp = "12345" THEN "OTP must be a 6-digit number."
  ELSE ""

(* _validate_password(value, 'New password') *)
_validate_password(password) ==
  IF password = "" THEN "New password is required."
  ELSE IF password = "short" THEN "New password must be at least 8 characters long."
  ELSE ""

(* str(random.randint(100000, 999999)) *)
OtpValues == {"123456", "654321"}

SubmittedEmails == {"ann@x.org", "ANN@x.org", "bob@x.org", "eve@x.org", "not-an-email"}

SubmittedOtps == {"123456", "654321", "12345"}

SubmittedPasswords == {"NewStrongPass1", "short"}

ConfirmedPasswords == {"NewStrongPass1", "Mismatch99"}

NoRequest == [view |-> "none", email |-> "", otp |-> "", message |-> ""]

InitReset ==
  /\ EmptyStore
  /\ probe = [fn |-> "reset", now |-> 0,
              passwords |-> [account \in ResetAccounts |-> InitialPassword],
              reset_otp_data |-> None, issued_at |-> None, request |-> NoRequest]

(* timezone.now() moves on *)
ResetClock(minutes) ==
  /\ probe.fn = "reset"
  /\ probe.now + minutes <= MaxMinutes
  /\ probe' = [probe EXCEPT !.now = @ + minutes, !.request = NoRequest]
  /\ UNCHANGED <<today, incomes, loans, budgets, cards, entries, settings, audit>>

(* POST forgot_password with the OTP drawn and the account found *)
forgot_password_view(email, otp, user) ==
  /\ probe.fn = "reset"
  /\ user \in UserWithEmail(email)
  /\ probe' =
       IF ~_is_valid_email(email)
         THEN [probe EXCEPT !.request = [view |-> "forgot_password", email |-> email,
                  otp |-> "", message |-> "Please enter a valid email address."]]
       ELSE IF IsNone(user)
         THEN [probe EXCEPT !.request = [view |-> "forgot_password", email |-> email,
                  otp |-> "", message |-> "No account found with this email."]]
       ELSE [probe EXCEPT
               !.reset_otp_data = Some([email |-> email, otp |-> otp,
                                        expires_at |-> probe.now + OtpValidMinutes]),
               !.issued_at = Some(probe.now),
               !.request = [view |-> "forgot_password", email |-> email,
                            otp |-> "", message |-> "OTP sent to your email address."]]
  /\ UNCHANGED <<today, incomes, loans, budgets, cards, entries, settings, audit>>

(* the OTP record is kept after a successful reset *)
ResetOutcome_KeepsRecord(email, otp, new_password, confirm_password, user) ==
  IF IsNone(probe.reset_otp_data)
    THEN [probe EXCEPT !.request = [view |-> "reset_password", email |-> email,
             otp |-> otp, message |-> "No OTP request found. Please request a new OTP."]]
  ELSE IF probe.now > Val(probe.reset_otp_data).expires_at
    THEN [probe EXCEPT
            !.reset_otp_data = None,
            !.request = [view |-> "reset_password", email |-> email, otp |-> otp,
                         message |-> "OTP has expired. Please request a new OTP."]]
  ELSE IF ~_is_valid_email(email)
    THEN [probe EXCEPT !.request = [view |-> "reset_password", email |-> email,
             otp |-> otp, message |-> "Please enter a valid email address."]]
  ELSE IF _validate_otp(otp) # ""
    THEN [probe EXCEPT !.request = [view |-> "reset_password", email |-> email,
             otp |-> otp, message |-> _validate_otp(otp)]]
  ELSE IF _validate_password(new_password) # ""
    THEN [probe EXCEPT !.request = [view |-> "reset_password", email |-> email,
             otp |-> otp, message |-> _validate_password(new_password)]]
  ELSE IF \/ EmailLower(email) # EmailLower(Val(probe.reset_otp_data).email)
          \/ otp # Val(probe.reset_otp_data).otp
    THEN [probe EXCEPT !.request = [view |-> "reset_password", email |-> email,
             otp |-> otp, message |-> "Invalid email or OTP."]]
  ELSE IF new_password # confirm_password
    THEN [probe EXCEPT !.request = [view |-> "reset_password", email |-> email,
             otp |-> otp, message |-> "Passwords do not match."]]
  ELSE IF IsNone(user)
    THEN [probe EXCEPT !.request = [view |-> "reset_password", email |-> email,
             otp |-> otp, message |-> "User not found."]]
  ELSE [probe EXCEPT
          !.passwords[Val(user)] = new_password,
          !.request = [view |-> "reset_password", email |-> email, otp |-> otp,
                       message |-> "Password reset successful. Please login."]]

(* the probe after POST reset_password, `user` being the account found *)
ResetOutcome(email, otp, new_password, confirm_password, user) ==
  IF IsNone(probe.reset_otp_data)
    THEN [probe EXCEPT !.request = [view |-> "reset_password", email |-> email,
             otp |-> otp, message |-> "No OTP request found. Please request a new OTP."]]
  ELSE IF probe.now > Val(probe.reset_otp_data).expires_at
    THEN [probe EXCEPT
            !.reset_otp_data = None,
            !.request = [view |-> "reset_password", email |-> email, otp |-> otp,
                         message |-> "OTP has expired. Please request a new OTP."]]
  ELSE IF ~_is_valid_email(email)
    THEN [probe EXCEPT !.request = [view |-> "reset_password", email |-> email,
             otp |-> otp, message |-> "Please enter a valid email address."]]
  ELSE IF _validate_otp(otp) # ""
    THEN [probe EXCEPT !.request = [view |-> "reset_password", email |-> email,
             otp |-> otp, message |-> _validate_otp(otp)]]
  ELSE IF _validate_password(new_password) # ""
    THEN [probe EXCEPT !.request = [view |-> "reset_password", email |-> email,
             otp |-> otp, message |-> _validate_password(new_password)]]
  ELSE IF \/ EmailLower(email) # EmailLower(Val(probe.reset_otp_data).email)
          \/ otp # Val(probe.reset_otp_data).otp
    THEN [probe EXCEPT !.request = [view |-> "reset_password", email |-> email,
             otp |-> otp, message |-> "Invalid email or OTP."]]
  ELSE IF new_password # confirm_password
    THEN [probe EXCEPT !.request = [view |-> "reset_password", email |-> email,
             otp |-> otp, message |-> "Passwords do not match."]]
  ELSE IF IsNone(user)
    THEN [probe EXCEPT !.request = [view |-> "reset_password", email |-> email,
             otp |-> otp, message |-> "User not found."]]
  ELSE [probe EXCEPT
          !.passwords[Val(user)] = new_password,
          !.reset_otp_data = None,
          !.request = [view |-> "reset_password", email |-> email, otp |-> otp,
                       message |-> "Password reset successful. Please login."]]

reset_password_view(email, otp, new_password, confirm_password, user) ==
  /\ probe.fn = "reset"
  /\ user \in UserWithEmail(email)
  /\ probe' = ResetOutcome(email, otp, new_password, confirm_password, user)
  /\ UNCHANGED <<today, incomes, loans, budgets, cards, entries, settings, audit>>

ResetAccountChoices == {Some(account) : account \in ResetAccounts} \cup {None}

NextReset ==
  \/ \E minutes \in {1, OtpValidMinutes} : ResetClock(minutes)
  \/ \E email \in SubmittedEmails, otp \in OtpValues, user \in ResetAccountChoices :
       forgot_password_view(email, otp, user)
  \/ \E email \in SubmittedEmails, otp \in SubmittedOtps,
        new_password \in SubmittedPasswords, confirm_password \in ConfirmedPasswords,
        user \in ResetAccountChoices :
       reset_password_view(email, otp, new_password, confirm_password, user)

SpecReset == InitReset /\ [][NextReset]_vars


ResetRecord == Val(probe.reset_otp_data)

ResetSucceeded == probe'.request.message = "Password reset successful. Please login."

ResetAttempted == probe'.request.view = "reset_password"

(* the password of some account changes only in a reset_password step that *)
(* finds an OTP record issued at most 10 minutes ago, whose e-mail (in     *)
(* lower case) and OTP equal the submitted ones                            *)
PasswordChangeNeedsOtp ==
  (probe'.passwords # probe.passwords \/ ResetSucceeded) =>
    /\ ResetAttempted
    /\ ~IsNone(probe.reset_otp_data)
    /\ probe.now <= ResetRecord.expires_at
    /\ probe.now - Val(probe.issued_at) <= OtpValidMinutes
    /\ EmailLower(probe'.request.email) = EmailLower(ResetRecord.email)
    /\ probe'.request.otp = ResetRecord.otp
    /\ _validate_otp(probe'.request.otp) = ""

(* a successful reset, and an attempt with an expired record, remove it *)
UsedOrExpiredOtpIsRemoved ==
  /\ ResetSucceeded => IsNone(probe'.reset_otp_data)
  /\ (/\ ResetAttempted
      /\ ~IsNone(probe.reset_otp_data)
      /\ probe.now > ResetRecord.expires_at)
       => (IsNone(probe'.reset_otp_data) /\ probe'.passwords = probe.passwords)

(* any other attempt leaves the passwords and the record as they were *)
FailedAttemptChangesNothing ==
  (/\ ResetAttempted
   /\ ~ResetSucceeded
   /\ ~(~IsNone(probe.reset_otp_data) /\ probe.now > ResetRecord.expires_at))
    => (probe'.passwords = probe.passwords
        /\ probe'.reset_otp_data = probe.reset_otp_data)

(* C27: reset_password changes a password only with an OTP record in the   *)
(* session that has not expired (at most 10 minutes after forgot_password  *)
(* issued it) and whose e-mail, compared without case, and 6-digit OTP     *)
(* equal the submitted values; a successful reset or an expired OTP        *)
(* removes the record, so that an OTP is not usable twice; a failed        *)
(* attempt leaves the password and the record unchanged.                   *)
C27_ResetNeedsFreshOtp ==
  [][PasswordChangeNeedsOtp /\ UsedOrExpiredOtpIsRemoved /\ FailedAttemptChangesNothing]_vars

(* a password reset in the last of the 10 minutes, with the e-mail typed   *)
(* in capitals                                                             *)
C27_Witness ==
  /\ probe.fn = "reset"
  /\ probe.now = OtpValidMinutes
  /\ probe.issued_at = Some(0)
  /\ probe.request.message = "Password reset successful. Please login."
  /\ probe.request.email = "ANN@x.org"
  /\ probe.passwords["ann@x.org"] = "NewStrongPass1"
  /\ IsNone(probe.reset_otp_data)

(* the attempt one minute later: the record is removed, the password kept *)
C27_ExpiredReached ==
  /\ probe.fn = "reset"
  /\ probe.now = OtpValidMinutes + 1
  /\ probe.issued_at = Some(0)
  /\ probe.request.message = "OTP has expired. Please request a new OTP."
  /\ probe.passwords["ann@x.org"] = InitialPassword
  /\ IsNone(probe.reset_otp_data)

(* after a successful reset the same OTP finds no record *)
C27_SecondUseReached ==
  /\ probe.fn = "reset"
  /\ probe.passwords["ann@x.org"] = "NewStrongPass1"
  /\ probe.request.message = "No OTP request found. Please request a new OTP."

(* a wrong OTP: the record stays *)
C27_WrongOtpReached ==
  /\ probe.fn = "reset"
  /\ probe.request.message = "Invalid email or OTP."
  /\ ~IsNone(probe.reset_otp_data)
  /\ probe.request.otp # Val(probe.reset_otp_data).otp


(***************************************************************************)
(* SpecBisect: _infer_monthly_rate pass by pass.  The probe holds the      *)
(* arguments; the guards either return or start the loop at low = 0 and    *)
(* high = 1, each step is one pass of the loop body, and the return after  *)
(* the last pass is the midpoint.  low, mid and high are on the grid of    *)
(* FracBits fractional bits.                                               *)
(***************************************************************************)
BisectPrincipals == {-1, 0, 1, 100}

BisectEmis == {<<-1, 1>>, <<0, 1>>, <<1, 1>>, <<2, 1>>, <<101, 2>>, <<199, 1>>, <<200, 1>>, <<500, 1>>}

BisectTenures == {-1, 0, 1, 2}

InitBisect ==
  /\ EmptyStore
  /\ probe \in {[fn |-> "bisect", stage |-> "called", principal |-> p, monthly_emi |-> e,
                 tenure_months |-> n, low |-> 0, high |-> GridOne, passes |-> 0,
                 result |-> None]
                  : p \in BisectPrincipals, e \in BisectEmis, n \in BisectTenures}

(* the three returns before the loop, or the loop's start *)
InferGuards ==
  /\ probe.fn = "bisect" /\ probe.stage = "called"
  /\ probe' =
       IF probe.principal <= 0 \/ probe.monthly_emi[1] <= 0 \/ probe.tenure_months <= 0
         THEN [probe EXCEPT !.stage = "returned"]
       ELSE IF RLess(probe.monthly_emi, Rat(probe.principal, probe.tenure_months))
         THEN [probe EXCEPT !.stage = "returned"]
       ELSE IF BelowEpsilon(RSub(probe.monthly_emi,
                                 Rat(probe.principal, probe.tenure_months)))
         THEN [probe EXCEPT !.stage = "returned", !.result = Some(<<0, 1>>)]
       ELSE [probe EXCEPT !.stage = "loop"]
  /\ UNCHANGED <<today, incomes, loans, budgets, cards, entries, settings, audit>>

(* one pass of `for _ in range(120)` *)
InferLoopPass ==
  /\ probe.fn = "bisect" /\ probe.stage = "loop"
  /\ probe.passes < BisectIterations
  /\ LET lh == BisectStep(probe.principal, probe.monthly_emi, probe.tenure_months,
                          <<probe.low, probe.high>>)
     IN probe' = [probe EXCEPT !.low = lh[1], !.high = lh[2], !.passes = @ + 1]
  /\ UNCHANGED <<today, incomes, loans, budgets, cards, entries, settings, audit>>

(* return (low + high) / 2 *)
InferReturn ==
  /\ probe.fn = "bisect" /\ probe.stage = "loop"
  /\ probe.passes = BisectIterations
  /\ probe' = [probe EXCEPT !.stage = "returned",
                 !.result = Some(Rat(GridMid(probe.low, probe.high), GridOne))]
  /\ UNCHANGED <<today, incomes, loans, budgets, cards, entries, settings, audit>>

NextBisect ==
  \/ InferGuards
  \/ InferLoopPass
  \/ InferReturn

SpecBisect == InitBisect /\ [][NextBisect]_vars

(* principal <= 0, monthly_emi <= 0, tenure_months <= 0, or monthly_emi    *)
(* below principal / tenure_months                                         *)
InferHasNoResult ==
  \/ probe.principal <= 0
  \/ probe.monthly_emi[1] <= 0
  \/ probe.tenure_months <= 0
  \/ RLess(probe.monthly_emi, Rat(probe.principal, probe.tenure_months))

(* what C28 says of the guards and of the loop: 'no result' exactly on the *)
(* degenerate arguments, at most 120 passes, 0 <= low <= high <= 1         *)
(* throughout, and the pass-by-pass result is the function's               *)
InferGuardsAndLoop ==
  probe.fn = "bisect" =>
    /\ probe.passes <= BisectIterations
    /\ 0 <= probe.low /\ probe.low <= probe.high /\ probe.high <= GridOne
    /\ probe.stage = "loop" => ~InferHasNoResult
    /\ probe.stage = "returned" =>
         /\ InferHasNoResult <=> IsNone(probe.result)
         /\ probe.result = _infer_monthly_rate(probe.principal, probe.monthly_emi,
                                               probe.tenure_months)

C28_RateOneReached ==
  /\ probe.fn = "bisect"
  /\ probe.stage = "returned"
  /\ probe.principal = 100 /\ probe.tenure_months = 1 /\ probe.monthly_emi = <<200, 1>>
  /\ probe.result = Some(<<1, 1>>)

(* an EMI below principal / tenure_months: no result, no pass *)
C28_BelowMinimumReached ==
  /\ probe.fn = "bisect"
  /\ probe.stage = "returned"
  /\ probe.principal = 100 /\ probe.tenure_months = 1 /\ probe.monthly_emi[1] = 2
  /\ probe.passes = 0
  /\ IsNone(probe.result)


(***************************************************************************)
(* SpecRuntime: one runtime row of _loan_runtime_breakdown on its own.     *)
(* The probe holds a loan's start and end date, end_date >= start_date,    *)
(* and the row computed for a reference date.                              *)
(***************************************************************************)
RuntimeDates ==
  {dt \in [y : {2024}, m : {1, 2, 3, 4}, d : {1, 15, 28, 29, 30, 31}] :
     dt.d <= monthrange(dt.y, dt.m)}
    \cup {Date(2023, 12, 31), Date(2025, 1, 1), Date(2025, 2, 28), Date(2025, 3, 31)}

InitRuntime ==
  /\ EmptyStore
  /\ \E s \in RuntimeDates :
       \E e \in {dt \in RuntimeDates : DateLE(s, dt)} :
         probe = [fn |-> "runtime", stage |-> "stored",
                  loan |-> [start_date |-> s, end_date |-> e],
                  reference_date |-> s, row |-> None]

(* the loop body of _loan_runtime_breakdown for the loan *)
ClassifyLoan(reference_date) ==
  /\ probe.fn = "runtime" /\ probe.stage = "stored"
  /\ probe' = [probe EXCEPT !.stage = "classified",
                 !.reference_date = reference_date,
                 !.row = Some(RuntimeRow(probe.loan, reference_date))]
  /\ UNCHANGED <<today, incomes, loans, budgets, cards, entries, settings, audit>>

NextRuntime == \E reference_date \in RuntimeDates : ClassifyLoan(reference_date)

SpecRuntime == InitRuntime /\ [][NextRuntime]_vars

Classified == probe.fn = "runtime" /\ probe.stage = "classified"

(* C29: for every loan with end_date >= start_date and every reference     *)
(* date the runtime row has elapsed_months + remaining_months =            *)
(* total_months; an active loan has elapsed at most total_months - 1, so   *)
(* neither min(total_months, ...) nor max(1, ...) alters a value.          *)
C29_ElapsedPlusRemainingIsTotal ==
  Classified =>
    LET row == Val(probe.row)
        elapsed == _elapsed_months(probe.loan.start_date, probe.reference_date)
    IN /\ row.total_months >= 1
       /\ row.elapsed_months + row.remaining_months = row.total_months
       /\ row.status = "active" =>
            /\ elapsed <= row.total_months - 1
            /\ row.elapsed_months = elapsed
            /\ row.remaining_months = row.total_months - elapsed

(* an active loan on its last day, whose end day is clamped below its      *)
(* start day: January 31 to February 29, seen on February 29               *)
C29_Witness ==
  /\ Classified
  /\ Val(probe.row).status = "active"
  /\ probe.loan.start_date = Date(2024, 1, 31)
  /\ probe.loan.end_date = Date(2024, 2, 29)
  /\ probe.reference_date = probe.loan.end_date
  /\ Val(probe.row).elapsed_months = 0
  /\ Val(probe.row).remaining_months = 1

(* an active loan part of the way through *)
C29_MidwayReached ==
  /\ Classified
  /\ Val(probe.row).status = "active"
  /\ Val(probe.row).elapsed_months >= 2
  /\ Val(probe.row).remaining_months >= 2

(* a closed and an upcoming loan *)
C29_ClosedReached ==
  /\ Classified
  /\ Val(probe.row).status = "closed"
  /\ Val(probe.row).remaining_months = 0
  /\ Val(probe.row).total_months >= 2

C29_UpcomingReached ==
  /\ Classified
  /\ Val(probe.row).status = "upcoming"
  /\ Val(probe.row).elapsed_months = 0


(***************************************************************************)
(* SpecEmi: _emi_from_rate, _calculate_monthly_emi and                     *)
(* _card_emi_monthly_due on degenerate arguments.  The probe holds a       *)
(* principal, a monthly rate and a tenure, and the outcome of each         *)
(* function: None, Some(value) or OverflowError.  The card wrapper is      *)
(* called with the annual percentage that gives the monthly rate.          *)
(***************************************************************************)
EmiPrincipals == {-5, 0, 1, 100}

EmiRates == {<<-1, 2>>, <<0, 1>>, <<1, 100>>, <<1, 12>>, <<1, 1>>}

EmiTenures == {-1, 0, 1, 2, 3}

(* tenures at which 2^tenure leaves the double range, and the last one     *)
(* below it at rate 0                                                      *)
EmiLongTenures == {DoubleMaxExponent, DoubleMaxExponent + 1}

EmiArguments ==
  (EmiPrincipals \X EmiRates \X EmiTenures)
    \cup (EmiPrincipals \X {<<1, 1>>, <<0, 1>>} \X EmiLongTenures)

(* the annual rate in hundredths of a percent of a monthly rate *)
AnnualPercentOf(monthly_rate) == (monthly_rate[1] * 120000) \div monthly_rate[2]

InitEmi ==
  /\ EmptyStore
  /\ \E args \in EmiArguments :
       probe = [fn |-> "emi", stage |-> "called", principal |-> args[1],
                monthly_rate |-> args[2], tenure_months |-> args[3],
                emi |-> None, monthly_emi |-> None, monthly_due |-> None]

CallEmiFromRate ==
  /\ probe.fn = "emi" /\ probe.stage = "called"
  /\ probe' = [probe EXCEPT !.stage = "emi",
                 !.emi = _emi_from_rate(probe.principal, probe.monthly_rate,
                                        probe.tenure_months)]
  /\ UNCHANGED <<today, incomes, loans, budgets, cards, entries, settings, audit>>

CallCalculateMonthlyEmi ==
  /\ probe.fn = "emi" /\ probe.stage = "emi"
  /\ probe' = [probe EXCEPT !.stage = "calculated",
                 !.monthly_emi = _calculate_monthly_emi(probe.principal,
                                                        probe.monthly_rate,
                                                        probe.tenure_months)]
  /\ UNCHANGED <<today, incomes, loans, budgets, cards, entries, settings, audit>>

CallCardEmiMonthlyDue ==
  /\ probe.fn = "emi" /\ probe.stage = "calculated"
  /\ LET annual_rate_percent == AnnualPercentOf(probe.monthly_rate)
     IN probe' = [probe EXCEPT !.stage = "due",
                    !.monthly_due =
                      IF _card_emi_monthly_due_raises(probe.principal, annual_rate_percent,
                                                      probe.tenure_months)
                        THEN OverflowError
                        ELSE Some(_card_emi_monthly_due(probe.principal,
                                                        annual_rate_percent,
                                                        probe.tenure_months))]
  /\ UNCHANGED <<today, incomes, loans, budgets, cards, entries, settings, audit>>

NextEmi ==
  \/ CallEmiFromRate
  \/ CallCalculateMonthlyEmi
  \/ CallCardEmiMonthlyDue

SpecEmi == InitEmi /\ [][NextEmi]_vars

EmiCalled == probe.fn = "emi" /\ probe.stage = "due"

(* the returned values of C30, for the calls that return *)
EmiReturnsAsStated ==
  /\ probe.tenure_months <= 0 => IsNone(probe.emi) /\ IsNone(probe.monthly_emi)
  /\ (probe.tenure_months >= 1 /\ ~Raises(probe.monthly_emi)) =>
       /\ ~IsNone(probe.monthly_emi)
       /\ Val(probe.monthly_emi) >= 1
       /\ probe.monthly_rate[1] <= 0 =>
            Val(probe.monthly_emi)
              = Max(1, RRound(Rat(probe.principal, probe.tenure_months)))
  /\ ~Raises(probe.monthly_due) =>
       ~IsNone(probe.monthly_due) /\ Val(probe.monthly_due) >= 1

(* C30 as stated: degenerate EMI input gives 'no result' and never an      *)
(* exception: _emi_from_rate and _calculate_monthly_emi return 'no result' *)
(* for tenure_months <= 0; for tenure_months >= 1 _calculate_monthly_emi   *)
(* returns an integer >= 1 (principal / tenure_months rounded when         *)
(* monthly_rate <= 0); _card_emi_monthly_due returns an integer >= 1 for   *)
(* every principal, rate and tenure.                                       *)
C30_NoResultNeverException ==
  EmiCalled =>
    /\ ~Raises(probe.emi)
    /\ ~Raises(probe.monthly_emi)
    /\ ~Raises(probe.monthly_due)
    /\ EmiReturnsAsStated

(* what the code keeps of C30: the stated values whenever                  *)
(* (1 + monthly_rate) ** tenure_months stays in the double range, and an   *)
(* exception only when it does not                                         *)
C30_NoResultWithinDoubleRange ==
  EmiCalled =>
    /\ EmiReturnsAsStated
    /\ Raises(probe.emi) <=>
         /\ probe.tenure_months >= 1
         /\ probe.monthly_rate[1] > 0
         /\ PowOverflows(RAdd(RInt(1), probe.monthly_rate), probe.tenure_months)
    /\ Raises(probe.monthly_emi) <=> Raises(probe.emi)
    /\ Raises(probe.monthly_due) <=> Raises(probe.emi)

(* (1 + 1.0) ** 1024 raises OverflowError in all three functions *)
C30_OverflowReached ==
  /\ EmiCalled
  /\ probe.principal = 100 /\ probe.monthly_rate = <<1, 1>>
  /\ probe.tenure_months = DoubleMaxExponent
  /\ Raises(probe.emi) /\ Raises(probe.monthly_emi) /\ Raises(probe.monthly_due)

(* tenure 0: no result from the two EMI functions, 1 from the wrapper's    *)
(* fallback for principal 0                                                *)
C30_NoTenureReached ==
  /\ EmiCalled
  /\ probe.tenure_months = 0 /\ probe.principal = 0
  /\ IsNone(probe.emi) /\ IsNone(probe.monthly_emi)
  /\ probe.monthly_due = Some(1)

(* a principal of 0 or less with a positive rate: the floor of 1 *)
C30_FloorReached ==
  /\ EmiCalled
  /\ probe.tenure_months = 3 /\ probe.principal = -5 /\ probe.monthly_rate = <<1, 12>>
  /\ probe.monthly_emi = Some(1)

=============================================================================
